---- MODULE Spec2Model ----
(***************************************************************************)
(* Tide-phase engine, 7-day day partition, 24-hour curve assembler, trend   *)
(* classifier, current tide status, network calls, station click, chart    *)
(* slots, map, forecast popup, date ranges, time strings, safe-parse       *)
(* helpers and next tide of the texas-tides dashboard (src/js/api/noaa.js, *)
(* src/js/ui/, src/js/utils/, src/js/map.js).                              *)
(*                                                                         *)
(* Encoding of JavaScript values:                                          *)
(*   - an instant (Date) is an integer number of ticks.  The code only    *)
(*     compares and subtracts instants, so the origin is free: in the      *)
(*     phase engine tick t is the instant 10:00 + t hours of the reference *)
(*     day, in the day partition a tick is six hours and TicksPerDay ticks *)
(*     make one local calendar day;                                        *)
(*   - a null object is the record Null;                                   *)
(*   - a null array is the one-element list NullList (no real list ever    *)
(*     holds Null);                                                        *)
(*   - a null number (safeFloat's fallback) is the integer NullFt, heights *)
(*     are integers in tenths of a foot (in 1/128 ft in the trend          *)
(*     classifier and in fetchTideNow);                                    *)
(*   - in the date utilities an instant is an integer number of minutes    *)
(*     on the calendar, and strings are sequences of characters.           *)
(***************************************************************************)
EXTENDS Integers, Sequences, FiniteSets

VARIABLES
    events,          \* argument of computePhaseFromHilo: list of hi/lo events
    now,             \* argument of computePhaseFromHilo: the current instant
    phase,           \* value returned by computePhaseFromHilo, Null before the call
    nextTide,        \* value fetchNextTide resolves to, Pending before
    clock,           \* the wall clock read by new Date() in the day partition
    tidePredictions, \* the 7-day prediction series handed to buildForecastPopupContent
    weatherDays,     \* forecastData.weather: one element per day card
    dayCards,        \* per day index: locals and result of getTideTimesForDay, <<>> before
    predictions,     \* what fetchPredictions resolved to inside fetch24HourCurve
    observed,        \* what fetchObservedWaterLevels resolved to inside fetch24HourCurve
    curveNow,        \* the instant new Date() returns inside fetch24HourCurve
    fallbackMode,    \* whether the system operates in no-predictions fallback mode
    curve,           \* value fetch24HourCurve resolved to, Pending before
    currentLevel,    \* first argument of determineTrend
    previousLevel,   \* second argument of determineTrend
    threshold,       \* third argument of determineTrend
    trend,           \* determineTrend(currentLevel, previousLevel, threshold)
    swappedTrend,    \* determineTrend(previousLevel, currentLevel, threshold)
    tnObserved,      \* what fetchWaterLevel resolved to inside fetchTideNow
    tnPredictions,   \* what fetchPredictions resolved to inside fetchTideNow
    tnNow,           \* the instant new Date() returns inside fetchTideNow
    tnEvents,        \* what fetchHiloEvents resolved to inside fetchTideNow
    tideNow,         \* value fetchTideNow resolved to, Pending before
    callKind,        \* per network call: which base request function makes it
    callStage,       \* per network call: how far its fetch has come
    callResult,      \* per network call: what the request function returned
    timeoutId,       \* per network call: state of its setTimeout(abort) timer
    issuedAt,        \* per network call: the instant it was issued
    netClock,        \* the time of the network component, in ticks of five seconds
    reqState,        \* per data-source request of a station click: its progress and result
    popupState,      \* what the popup of the clicked station shows
    sections,        \* per data source: what buildPopupContent was given
    frame,           \* the requestAnimationFrame callback of the click
    drawn,           \* the chart slots that callback has rendered into
    batches,         \* the fetch batches of the clicks so far, in click order
    openBatch,       \* the batch whose popup is open on the map (0: none)
    popupContent,    \* what the open popup displays
    canvasData,      \* per chart slot: the batch whose data is drawn on the canvas in the DOM
    live,            \* per chart slot: the number of chart instances created and not destroyed
    markers,         \* the ids of the stations that have a marker with a click handler on the map
    currentTileLayer,    \* the tile layer shown on the map
    fcNow,               \* the instant new Date() returns while the forecast popup is built and drawn
    tidePredictions7Day, \* what fetchTidePredictions7Day resolved to
    weatherForecast7Day, \* what fetchWeatherForecast7Day resolved to
    sunMoon7Day,         \* what fetchSunMoon7Day resolved to
    forecastContent,     \* the day cards handleForecastClick has set as popup content, Pending before
    fcFrame,             \* the requestAnimationFrame callback of the forecast click
    sparklines,          \* the day indexes whose tide sparkline has been drawn
    rangeZone,           \* the local time zone of the runtime
    rangeNow,            \* the instant new Date() returns inside getDateRangeFromMidnightToday
    numDays,             \* argument of getDateRangeFromMidnightToday
    dateRange,           \* value returned by getDateRangeFromMidnightToday, Pending before
    tripZone,            \* the local time zone of the runtime
    tripDate,            \* the Date formatted for a request
    requestString,       \* formatNOAADate of tripDate, Pending before
    echoString,          \* the time string of the reply for that same local time, Pending before
    parsedDate,          \* parseNOAALocalTime of echoString, Pending before
    parseZone,           \* the local time zone of the runtime
    parseInput,          \* the value handed to the safe-parse helpers
    floatResult,         \* safeFloat(parseInput), Pending before
    intResult,           \* safeInt(parseInput), Pending before
    timeResult           \* parseNOAALocalTime(parseInput), Pending before

phaseVars == <<events, now, phase, nextTide>>

dayVars == <<clock, tidePredictions, weatherDays, dayCards>>

curveVars == <<predictions, observed, curveNow, fallbackMode, curve>>

trendVars == <<currentLevel, previousLevel, threshold, trend, swappedTrend>>

tideNowVars == <<tnObserved, tnPredictions, tnNow, tnEvents, tideNow>>

callVars == <<callKind, callStage, callResult, timeoutId, issuedAt, netClock>>

clickVars == <<reqState, popupState, sections, frame, drawn>>

popupVars == <<batches, openBatch, popupContent, canvasData, live>>

mapVars == <<markers, currentTileLayer>>

forecastVars == <<fcNow, tidePredictions7Day, weatherForecast7Day, sunMoon7Day, forecastContent, fcFrame, sparklines>>

rangeVars == <<rangeZone, rangeNow, numDays, dateRange>>

tripVars == <<tripZone, tripDate, requestString, echoString, parsedDate>>

parseVars == <<parseZone, parseInput, floatResult, intResult, timeResult>>

vars == <<phaseVars, dayVars, curveVars, trendVars, tideNowVars, callVars, clickVars, popupVars, mapVars, forecastVars, rangeVars, tripVars, parseVars>>

\* What each component leaves alone: the variables of all the others.
notPhaseVars == <<dayVars, curveVars, trendVars, tideNowVars, callVars, clickVars, popupVars, mapVars, forecastVars, rangeVars, tripVars, parseVars>>

notDayVars == <<phaseVars, curveVars, trendVars, tideNowVars, callVars, clickVars, popupVars, mapVars, forecastVars, rangeVars, tripVars, parseVars>>

notCurveVars == <<phaseVars, dayVars, trendVars, tideNowVars, callVars, clickVars, popupVars, mapVars, forecastVars, rangeVars, tripVars, parseVars>>

notTrendVars == <<phaseVars, dayVars, curveVars, tideNowVars, callVars, clickVars, popupVars, mapVars, forecastVars, rangeVars, tripVars, parseVars>>

notTideNowVars == <<phaseVars, dayVars, curveVars, trendVars, callVars, clickVars, popupVars, mapVars, forecastVars, rangeVars, tripVars, parseVars>>

notCallVars == <<phaseVars, dayVars, curveVars, trendVars, tideNowVars, clickVars, popupVars, mapVars, forecastVars, rangeVars, tripVars, parseVars>>

notClickVars == <<phaseVars, dayVars, curveVars, trendVars, tideNowVars, callVars, popupVars, mapVars, forecastVars, rangeVars, tripVars, parseVars>>

notPopupVars == <<phaseVars, dayVars, curveVars, trendVars, tideNowVars, callVars, clickVars, mapVars, forecastVars, rangeVars, tripVars, parseVars>>

notMapVars == <<phaseVars, dayVars, curveVars, trendVars, tideNowVars, callVars, clickVars, popupVars, forecastVars, rangeVars, tripVars, parseVars>>

notForecastVars == <<phaseVars, dayVars, curveVars, trendVars, tideNowVars, callVars, clickVars, popupVars, mapVars, rangeVars, tripVars, parseVars>>

notRangeVars == <<phaseVars, dayVars, curveVars, trendVars, tideNowVars, callVars, clickVars, popupVars, mapVars, forecastVars, tripVars, parseVars>>

notTripVars == <<phaseVars, dayVars, curveVars, trendVars, tideNowVars, callVars, clickVars, popupVars, mapVars, forecastVars, rangeVars, parseVars>>

notParseVars == <<phaseVars, dayVars, curveVars, trendVars, tideNowVars, callVars, clickVars, popupVars, mapVars, forecastVars, rangeVars, tripVars>>

-----------------------------------------------------------------------------
(* Bounds of the model *)

MaxEvents == 3       \* longest hi/lo event list
MaxT      == 8       \* event times and now range over 0..MaxT (hours)
MaxPreds  == 3       \* longest prediction series
MaxCurvePts == 2     \* longest predicted series of the 24-hour curve
MaxObserved == 2     \* longest observed series of the 24-hour curve
TicksPerDay == 4     \* resolution of the day partition: ticks per calendar day

-----------------------------------------------------------------------------
(* JavaScript null values *)

Null == [null |-> TRUE]

NullList == <<Null>>

IsNullList(list) == Len(list) = 1 /\ list[1] = Null

-----------------------------------------------------------------------------
(* Phase engine: src/js/api/noaa.js *)

Kinds == {"High", "Low"}

\* fetchHiloEvents maps every upstream record to {time, ft, kind}; the height
\* plays no part in the phase computation and is left out of the event.
TideEvent == [time : 0..MaxT, kind : Kinds]

\* Every list of at most MaxEvents events, in any order.
EventLists == UNION {[1..n -> TideEvent] : n \in 0..MaxEvents}

IsChronological(list) ==
    \A i \in 1..(Len(list) - 1) : list[i].time <= list[i + 1].time

getTideDirArrow(prevKind, nextKind) ==
    IF prevKind = "Low" /\ nextKind = "High" THEN "up-right"
    ELSE IF prevKind = "High" /\ nextKind = "Low" THEN "down-right"
    ELSE "right"

\* Variant of the rounding that truncates (Math.floor).
MathFloor(num, den) == num \div den

RECURSIVE Pow2(_)
Pow2(k) == IF k = 0 THEN 1 ELSE 2 * Pow2(k - 1)

RECURSIVE Pow2Mod(_, _)
\* 2^k modulo m.
Pow2Mod(k, m) == IF k = 0 THEN 1 % m ELSE (2 * Pow2Mod(k - 1, m)) % m

\* frac * 100 in double arithmetic when 100 * elapsed / total is exactly
\* k + 1/2 (k in 0..99): frac is the double nearest to n/200, n = 2k + 1, and the
\* product is rounded to a double again; the result is below k + 1/2 when frac
\* is below n/200 by more than half the spacing of the doubles under k + 1/2.
\* With frac = M / 2^s (2^52 <= M < 2^53) and rest the signed remainder of
\* n * 2^s by 200, frac * 100 is k + 1/2 - rest / 2^(s+1).  (This is so for
\* k = 14, 28, 56 and 57.)
ProductBelowHalf(k) ==
    LET n == 2 * k + 1
        j == CHOOSE i \in 0..8 : n * Pow2(i) >= 200 /\ (i = 0 \/ n * Pow2(i - 1) < 200)
        s == 52 + j
        remainder == (n * Pow2Mod(s, 200)) % 200
        rest == IF remainder < 100 THEN remainder ELSE remainder - 200
        q == CHOOSE i \in 0..8 : Pow2(i) <= n /\ n < Pow2(i + 1)
        halfSpacing == IF k = 0 THEN Pow2(j + q - 2) ELSE Pow2(j + q - 1)
    IN  rest > halfSpacing

\* Math.round(frac * 100) for frac = elapsed / total in double arithmetic, num
\* being 100 * elapsed and den total (0 <= elapsed < total): the nearest
\* integer; when num/den is exactly k + 1/2 the double product decides, and
\* Math.round takes a double at k + 1/2 up.
MathRound(num, den) ==
    IF 2 * (num % den) = den
    THEN IF ProductBelowHalf(num \div den) THEN num \div den ELSE num \div den + 1
    ELSE (2 * num + den) \div (2 * den)

\* Variant of the scan that compares with < : an event at now becomes the next one.
RECURSIVE ScanEventsStrict(_, _, _, _)
ScanEventsStrict(list, t, i, prev) ==
    IF i > Len(list) THEN [prevEvent |-> prev, nextEvent |-> Null]
    ELSE IF list[i].time < t THEN ScanEventsStrict(list, t, i + 1, list[i])
    ELSE [prevEvent |-> prev, nextEvent |-> list[i]]

\* The for-of loop of computePhaseFromHilo from position i on, prev being the
\* value of prevEvent so far.  The loop breaks at the first later event.
RECURSIVE ScanEvents(_, _, _, _)
ScanEvents(list, t, i, prev) ==
    IF i > Len(list) THEN [prevEvent |-> prev, nextEvent |-> Null]
    ELSE IF list[i].time <= t THEN ScanEvents(list, t, i + 1, list[i])
    ELSE [prevEvent |-> prev, nextEvent |-> list[i]]

TextNA == [na |-> TRUE]

PhaseText(prevEvent, nextEvent, t) ==
    LET total == nextEvent.time - prevEvent.time
        elapsed == t - prevEvent.time
        pct == MathRound(elapsed * 100, total)
    IN  [pct |-> pct,
         from |-> prevEvent.kind,
         to |-> nextEvent.kind,
         arrow |-> getTideDirArrow(prevEvent.kind, nextEvent.kind)]

\* Variant whose length guard is off by one (events.length < 1).
computePhaseFromHiloShortGuard(list, t) ==
    IF IsNullList(list) \/ Len(list) < 1
    THEN [text |-> TextNA, prevEvent |-> Null, nextEvent |-> Null]
    ELSE LET scan == ScanEvents(list, t, 1, Null)
         IN  IF scan.prevEvent = Null \/ scan.nextEvent = Null
             THEN [text |-> TextNA, prevEvent |-> scan.prevEvent, nextEvent |-> scan.nextEvent]
             ELSE [text |-> PhaseText(scan.prevEvent, scan.nextEvent, t),
                   prevEvent |-> scan.prevEvent, nextEvent |-> scan.nextEvent]

\* Variant that clears both events whenever the scan finds no bracketing pair.
computePhaseFromHiloBothNull(list, t) ==
    IF IsNullList(list) \/ Len(list) < 2
    THEN [text |-> TextNA, prevEvent |-> Null, nextEvent |-> Null]
    ELSE LET scan == ScanEvents(list, t, 1, Null)
         IN  IF scan.prevEvent = Null \/ scan.nextEvent = Null
             THEN [text |-> TextNA, prevEvent |-> Null, nextEvent |-> Null]
             ELSE [text |-> PhaseText(scan.prevEvent, scan.nextEvent, t),
                   prevEvent |-> scan.prevEvent, nextEvent |-> scan.nextEvent]

computePhaseFromHilo(list, t) ==
    IF IsNullList(list) \/ Len(list) < 2
    THEN [text |-> TextNA, prevEvent |-> Null, nextEvent |-> Null]
    ELSE LET scan == ScanEvents(list, t, 1, Null)
             prevEvent == scan.prevEvent
             nextEvent == scan.nextEvent
         IN  IF prevEvent = Null \/ nextEvent = Null
             THEN [text |-> TextNA, prevEvent |-> prevEvent, nextEvent |-> nextEvent]
             ELSE [text |-> PhaseText(prevEvent, nextEvent, t),
                   prevEvent |-> prevEvent,
                   nextEvent |-> nextEvent]

Pending == [pending |-> TRUE]

PhaseIdle == events = <<>> /\ now = 0 /\ phase = Null /\ nextTide = Pending

DayIdle == clock = 0 /\ tidePredictions = <<>> /\ weatherDays = <<>> /\ dayCards = <<>>

CurveIdle ==
    /\ predictions = <<>> /\ observed = <<>> /\ curveNow = 0
    /\ fallbackMode = FALSE /\ curve = Pending

\* Value of a result variable before the function has been called.
NotCalled == "not called"

TrendIdle ==
    /\ currentLevel = 0 /\ previousLevel = 0 /\ threshold = 0
    /\ trend = NotCalled /\ swappedTrend = NotCalled

TideNowIdle ==
    /\ tnObserved = 0 /\ tnPredictions = <<>> /\ tnNow = 0
    /\ tnEvents = <<>> /\ tideNow = Pending

CallIdle ==
    /\ callKind = <<>> /\ callStage = <<>> /\ callResult = <<>>
    /\ timeoutId = <<>> /\ issuedAt = <<>> /\ netClock = 0

ClickIdle ==
    /\ reqState = <<>> /\ popupState = "closed" /\ sections = <<>>
    /\ frame = "none" /\ drawn = {}

PopupIdle ==
    /\ batches = <<>> /\ openBatch = 0 /\ popupContent = Null
    /\ canvasData = <<>> /\ live = <<>>

MapIdle ==
    /\ markers = {} /\ currentTileLayer = "none"

ForecastIdle ==
    /\ fcNow = 0 /\ tidePredictions7Day = <<>> /\ weatherForecast7Day = <<>>
    /\ sunMoon7Day = <<>> /\ forecastContent = Pending /\ fcFrame = "none" /\ sparklines = {}

RangeIdle ==
    /\ rangeZone = Null /\ rangeNow = 0 /\ numDays = 0 /\ dateRange = Pending

TripIdle ==
    /\ tripZone = Null /\ tripDate = Null /\ requestString = Pending
    /\ echoString = Pending /\ parsedDate = Pending

ParseIdle ==
    /\ parseZone = Null /\ parseInput = Null /\ floatResult = Pending
    /\ intResult = Pending /\ timeResult = Pending

\* Every component outside the named ones is at rest.
AllIdleExcept(components) ==
    /\ IF "phase" \in components THEN TRUE ELSE PhaseIdle
    /\ IF "day" \in components THEN TRUE ELSE DayIdle
    /\ IF "curve" \in components THEN TRUE ELSE CurveIdle
    /\ IF "trend" \in components THEN TRUE ELSE TrendIdle
    /\ IF "tideNow" \in components THEN TRUE ELSE TideNowIdle
    /\ IF "call" \in components THEN TRUE ELSE CallIdle
    /\ IF "click" \in components THEN TRUE ELSE ClickIdle
    /\ IF "popup" \in components THEN TRUE ELSE PopupIdle
    /\ IF "map" \in components THEN TRUE ELSE MapIdle
    /\ IF "forecast" \in components THEN TRUE ELSE ForecastIdle
    /\ IF "range" \in components THEN TRUE ELSE RangeIdle
    /\ IF "trip" \in components THEN TRUE ELSE TripIdle
    /\ IF "parse" \in components THEN TRUE ELSE ParseIdle

\* Every component but the named one is at rest.
IdleExcept(component) == AllIdleExcept({component})

InitPhase ==
    /\ events \in EventLists \cup {NullList}
    /\ now \in 0..MaxT
    /\ phase = Null
    /\ nextTide = Pending
    /\ IdleExcept("phase")

ComputePhase ==
    /\ phase = Null
    /\ phase' = computePhaseFromHilo(events, now)
    /\ UNCHANGED <<events, now, nextTide>>
    /\ UNCHANGED notPhaseVars

NextPhase == ComputePhase

SpecPhase == InitPhase /\ [][NextPhase]_vars

-----------------------------------------------------------------------------
(* Properties of the phase engine (checked under SpecPhase) *)

PhaseDone == phase # Null

RealList == ~IsNullList(events)

\* Positions of the events at or before now, and of those strictly after now.
AtOrBefore == {i \in 1..Len(events) : events[i].time <= now}
After      == {i \in 1..Len(events) : events[i].time > now}

MaxOf(S) == CHOOSE x \in S : \A y \in S : y <= x
MinOf(S) == CHOOSE x \in S : \A y \in S : x <= y

\* C1: for a chronological list of at least 2 events, when some event is at or
\* before now and some event is strictly after now, prevEvent is the latest
\* event with time <= now and nextEvent is the first event with time > now; an
\* event exactly at now is the previous event, never the next.
C1_BracketingPair ==
    (/\ PhaseDone /\ RealList /\ Len(events) >= 2 /\ IsChronological(events)
     /\ AtOrBefore # {} /\ After # {})
    => /\ phase.prevEvent = events[MaxOf(AtOrBefore)]
       /\ \A i \in AtOrBefore : events[i].time <= phase.prevEvent.time
       /\ phase.nextEvent = events[MinOf(After)]
       /\ phase.nextEvent.time > now

\* C1 witness: a chronological list with an event exactly at now, followed by a
\* later event, has been scanned.
C1_Witness ==
    /\ PhaseDone /\ RealList /\ Len(events) = 3 /\ IsChronological(events)
    /\ events[2].time = now /\ events[3].time > now
    /\ phase.prevEvent = events[2]

\* "The scan yields no bracketing pair", stated on the inputs: no event is
\* strictly after now, or the first event of the list already is.
NoBracketingPair == After = {} \/ MinOf(After) = 1

\* C2 as claimed: with 2 or more events and no bracketing pair the result is the
\* sentinel text with BOTH prevEvent and nextEvent null.
C2_BothNull ==
    (PhaseDone /\ RealList /\ Len(events) >= 2 /\ NoBracketingPair)
    => /\ phase.text = TextNA
       /\ phase.prevEvent = Null
       /\ phase.nextEvent = Null

\* C2 amended: with 2 or more events and no bracketing pair the result is the
\* sentinel text and carries the one event the scan did find: when no event is
\* after now, nextEvent is null and prevEvent is the last event; when the first
\* event is after now, prevEvent is null and nextEvent is that first event.
C2_OneNull ==
    (PhaseDone /\ RealList /\ Len(events) >= 2 /\ NoBracketingPair)
    => /\ phase.text = TextNA
       /\ After = {} => (phase.nextEvent = Null /\ phase.prevEvent = events[Len(events)])
       /\ After # {} => (phase.prevEvent = Null /\ phase.nextEvent = events[1])

\* C2 witness: now is at or after the last of two chronological events.
C2_Witness ==
    /\ PhaseDone /\ RealList /\ Len(events) = 2 /\ IsChronological(events)
    /\ events[2].time <= now
    /\ phase.text = TextNA /\ phase.nextEvent = Null

\* C3: a null, empty or one-event list gives prevEvent = null, nextEvent = null
\* and the sentinel text, for every now.
C3_FewerThanTwo ==
    (PhaseDone /\ (IsNullList(events) \/ Len(events) < 2))
    => phase = [text |-> TextNA, prevEvent |-> Null, nextEvent |-> Null]

\* C3 witness: a list of exactly one event, at or before now, has been processed.
C3_Witness ==
    /\ PhaseDone /\ RealList /\ Len(events) = 1 /\ events[1].time <= now

\* C4: when both bracketing events are found, the percentage of the text is the
\* integer nearest to 100 * (now - prev.time) / (next.time - prev.time).
C4_Percentage ==
    (PhaseDone /\ phase.prevEvent # Null /\ phase.nextEvent # Null)
    => /\ phase.text # TextNA
       /\ LET total == phase.nextEvent.time - phase.prevEvent.time
              elapsed == now - phase.prevEvent.time
              diff == 100 * elapsed - phase.text.pct * total
          IN  /\ total > 0
              /\ 2 * diff <= total
              /\ 2 * (0 - diff) <= total

\* C4 witness: High at 10:00, Low at 16:00, now 13:00 gives 50.
C4_Witness ==
    /\ events = <<[time |-> 0, kind |-> "High"], [time |-> 6, kind |-> "Low"]>>
    /\ now = 3
    /\ PhaseDone
    /\ phase.text # TextNA /\ phase.text.pct = 50
    /\ phase.prevEvent = events[1] /\ phase.nextEvent = events[2]

\* C28: for a list in any order, whenever prevEvent and nextEvent are both
\* non-null, prevEvent.time <= now < nextEvent.time, so the divisor
\* nextEvent.time - prevEvent.time is strictly positive and the percentage is
\* an integer in 0..100.
C28_PositiveDivisor ==
    (PhaseDone /\ phase.prevEvent # Null /\ phase.nextEvent # Null)
    => /\ phase.prevEvent.time <= now
       /\ now < phase.nextEvent.time
       /\ phase.nextEvent.time - phase.prevEvent.time > 0
       /\ phase.text # TextNA
       /\ phase.text.pct \in 0..100

\* C28 witness: a list out of time order, whose first event is exactly at now
\* and whose second is earlier, has given a bracketing pair: the second event
\* and the third.
C28_Witness ==
    /\ PhaseDone /\ RealList /\ Len(events) = 3 /\ ~IsChronological(events)
    /\ events[1].time = now
    /\ events[2].time < now
    /\ phase.prevEvent = events[2]
    /\ phase.nextEvent = events[3]
    /\ phase.text # TextNA

-----------------------------------------------------------------------------
(* 7-day day partition: src/js/ui/forecastPopup.js, src/js/utils/datetime.js *)

NumDays == 7

\* safeFloat's null; relational operators convert it to the number 0.
NullFt == 999

ToNumber(ft) == IF ft = NullFt THEN 0 ELSE ft

\* Heights in tenths of a foot: -0.3 ft, 1.8 ft, 2.1 ft, or a missing reading.
FtValues == {-3, 18, 21, NullFt}

\* Sample spacings of a series: the next tick, or one day later (a gap).
Gaps == {1, TicksPerDay}

\* Tick 0 is local midnight of the day the series was requested; the upstream
\* window [begin, end] of getDateRangeFromMidnightToday(7) includes its end.
HorizonTicks == NumDays * TicksPerDay

RECURSIVE SumTo(_, _)
SumTo(gaps, k) == IF k = 0 THEN 0 ELSE gaps[k] + SumTo(gaps, k - 1)

\* The chronological series of n samples that starts at tick start, with the
\* given spacings and heights.
MakeSeries(n, start, gaps, fts) ==
    [k \in 1..n |-> [time |-> start + SumTo(gaps, k - 1), ft |-> fts[k]]]

InWindow(series) == \A k \in 1..Len(series) : series[k].time <= HorizonTicks

TideNA == [na |-> "N/A"]

\* new Date(now.getFullYear(), now.getMonth(), now.getDate(), 0, 0, 0, 0)
midnightToday(t) == t - (t % TicksPerDay)

\* dayStart.setDate(midnightToday.getDate() + dayIndex)
dayStartOf(t, dayIndex) == midnightToday(t) + dayIndex * TicksPerDay

\* dayEnd.setDate(dayStart.getDate() + 1)
dayEndOf(t, dayIndex) == dayStartOf(t, dayIndex) + TicksPerDay

\* Variant of the filter whose upper bound is inclusive.
dayPredictionsInclusive(dayIndex, preds, t) ==
    LET InDay(pred) == pred.time >= dayStartOf(t, dayIndex) /\ pred.time <= dayEndOf(t, dayIndex)
    IN  SelectSeq(preds, InDay)

\* Variant of the filter that forgets the lower bound.
dayPredictionsNoLower(dayIndex, preds, t) ==
    LET InDay(pred) == pred.time < dayEndOf(t, dayIndex)
    IN  SelectSeq(preds, InDay)

\* tidePredictions.filter(pred => pred.time >= dayStart && pred.time < dayEnd)
dayPredictions(dayIndex, preds, t) ==
    LET InDay(pred) == pred.time >= dayStartOf(t, dayIndex) /\ pred.time < dayEndOf(t, dayIndex)
    IN  SelectSeq(preds, InDay)

\* The high-tide half of the for-of loop from position i on.
RECURSIVE ScanHigh(_, _, _)
ScanHigh(bucket, i, highTide) ==
    IF i > Len(bucket) THEN highTide
    ELSE IF ToNumber(bucket[i].ft) > ToNumber(highTide.ft)
         THEN ScanHigh(bucket, i + 1, bucket[i])
         ELSE ScanHigh(bucket, i + 1, highTide)

\* The low-tide half of the for-of loop from position i on.
RECURSIVE ScanLow(_, _, _)
ScanLow(bucket, i, lowTide) ==
    IF i > Len(bucket) THEN lowTide
    ELSE IF ToNumber(bucket[i].ft) < ToNumber(lowTide.ft)
         THEN ScanLow(bucket, i + 1, bucket[i])
         ELSE ScanLow(bucket, i + 1, lowTide)

\* toLocaleString with hour and minute only: the time of day, without the date.
formatTime(t) == [timeOfDay |-> t % TicksPerDay]

\* getTideTimesForDay, t being the instant new Date() returns.  The card keeps
\* the locals dayStart and dayPredictions next to the returned high and low.
getTideTimesForDay(dayIndex, preds, t) ==
    IF IsNullList(preds) \/ Len(preds) = 0
    THEN [high |-> TideNA, low |-> TideNA]
    ELSE LET bucket == dayPredictions(dayIndex, preds, t)
         IN  IF Len(bucket) = 0
             THEN [high |-> TideNA, low |-> TideNA,
                   dayStart |-> dayStartOf(t, dayIndex), dayPredictions |-> bucket]
             ELSE [high |-> formatTime(ScanHigh(bucket, 1, bucket[1]).time),
                   low |-> formatTime(ScanLow(bucket, 1, bucket[1]).time),
                   dayStart |-> dayStartOf(t, dayIndex), dayPredictions |-> bucket]

OrEmpty(list) == IF IsNullList(list) THEN <<>> ELSE list

\* A string of the page.
Text(str) == [text |-> str]

\* One day of the weather forecast.
WeatherDay == [shortForecast |-> Text("Sunny")]

\* forecastData.weather as handleForecastClick passes it (weatherForecast7Day
\* || []): no day, the first three days, or the seven days.
DayWeatherLists == {[d \in 1..n |-> WeatherDay] : n \in {0, 3, NumDays}}

InitDay ==
    /\ clock \in 0..TicksPerDay
    /\ \/ tidePredictions = NullList
       \/ \E n \in 0..MaxPreds :
             \E start \in 0..HorizonTicks, gaps \in [1..(n - 1) -> Gaps], fts \in [1..n -> FtValues] :
                /\ tidePredictions = MakeSeries(n, start, gaps, fts)
                /\ InWindow(tidePredictions)
    /\ weatherDays \in DayWeatherLists
    /\ dayCards = <<>>
    /\ IdleExcept("day")

\* Time passes.
Tick ==
    /\ clock < TicksPerDay
    /\ clock' = clock + 1
    /\ UNCHANGED <<tidePredictions, weatherDays, dayCards>>
    /\ UNCHANGED notDayVars

\* The instant new Date() returns in the getTideTimesForDay call of a card,
\* the clock passing to its next tick just before the call of card ticked
\* (never, when ticked is beyond the last card).
ClockOfCard(index, ticked, t) == IF index < ticked THEN t ELSE t + 1

\* buildForecastPopupContent: weather.map makes one getTideTimesForDay call
\* per element of forecastData.weather, and each call reads the clock itself.
BuildForecastPopupContent ==
    \E ticked \in (2..Len(weatherDays)) \cup {Len(weatherDays) + 1} :
       /\ ticked <= Len(weatherDays) => clock < TicksPerDay
       /\ dayCards' = [index \in 1..Len(weatherDays) |->
                          getTideTimesForDay(index - 1, OrEmpty(tidePredictions),
                                             ClockOfCard(index, ticked, clock))]
       /\ clock' = IF ticked <= Len(weatherDays) THEN clock + 1 ELSE clock
       /\ UNCHANGED <<tidePredictions, weatherDays>>
       /\ UNCHANGED notDayVars

NextDay == Tick \/ BuildForecastPopupContent

SpecDay == InitDay /\ [][NextDay]_vars

-----------------------------------------------------------------------------
(* Properties of the day partition (checked under SpecDay) *)

DayBuilt == dayCards # <<>>

HasPredictions == ~IsNullList(tidePredictions) /\ Len(tidePredictions) > 0

\* The midnight the evaluation of the first card anchored its day boundaries to.
EvalMidnight == dayCards[1].dayStart

\* The midnight the evaluation of card d anchored its day boundaries to.
AnchorOf(d) == dayCards[d].dayStart - (d - 1) * TicksPerDay

\* Every card of the last build was evaluated on the same calendar day.
SameAnchor == \A d \in 1..Len(dayCards) : AnchorOf(d) = EvalMidnight

RECURSIVE ConcatBuckets(_, _)
ConcatBuckets(cards, d) ==
    IF d > Len(cards) THEN <<>>
    ELSE cards[d].dayPredictions \o ConcatBuckets(cards, d + 1)

\* C5: when every point of the series lies in [midnightToday, midnightToday +
\* 7 days), the filters of day index 0..6 taken from that midnightToday form
\* exactly 7 buckets whose concatenation is the input series (exhaustive,
\* nothing twice), each point lying in the bucket of its own calendar day; a
\* point exactly on a midnight boundary belongs to the later day only.
C5_SevenDisjointBuckets ==
    (/\ DayBuilt /\ HasPredictions /\ Len(dayCards) = NumDays /\ SameAnchor
     /\ \A k \in 1..Len(tidePredictions) :
           /\ EvalMidnight <= tidePredictions[k].time
           /\ tidePredictions[k].time < EvalMidnight + NumDays * TicksPerDay)
    => /\ Len(dayCards) = NumDays
       /\ EvalMidnight % TicksPerDay = 0 /\ EvalMidnight <= clock
       /\ ConcatBuckets(dayCards, 1) = tidePredictions
       /\ \A d \in 1..NumDays :
             \A k \in 1..Len(dayCards[d].dayPredictions) :
                (dayCards[d].dayPredictions[k].time - EvalMidnight) \div TicksPerDay = d - 1

\* C5 witness: a three-point series inside the week, with a point exactly on the
\* midnight between day 0 and day 1, has been partitioned.
C5_Witness ==
    /\ DayBuilt /\ HasPredictions /\ Len(tidePredictions) = 3
    /\ Len(dayCards) = NumDays /\ SameAnchor
    /\ \A k \in 1..3 : /\ EvalMidnight <= tidePredictions[k].time
                       /\ tidePredictions[k].time < EvalMidnight + NumDays * TicksPerDay
    /\ tidePredictions[1].time = EvalMidnight + TicksPerDay - 1
    /\ tidePredictions[2].time = EvalMidnight + TicksPerDay
    /\ Len(dayCards[1].dayPredictions) = 1
    /\ Len(dayCards[2].dayPredictions) = 2

\* A build during which midnight passed: the first cards are anchored on one
\* day and the others on the next, and a point of the series that lies in the
\* week of both anchors is in no bucket.
BuildAcrossMidnight ==
    /\ DayBuilt /\ HasPredictions /\ Len(dayCards) = NumDays /\ ~SameAnchor
    /\ \A k \in 1..Len(tidePredictions) :
          \A d \in 1..NumDays :
             /\ AnchorOf(d) <= tidePredictions[k].time
             /\ tidePredictions[k].time < AnchorOf(d) + NumDays * TicksPerDay
    /\ Len(ConcatBuckets(dayCards, 1)) < Len(tidePredictions)

\* Positions of the known (non-null) heights of a bucket.
Known(bucket) == {k \in 1..Len(bucket) : bucket[k].ft # NullFt}

FirstMax(bucket) ==
    LET top == MaxOf({bucket[k].ft : k \in Known(bucket)})
    IN  MinOf({k \in Known(bucket) : bucket[k].ft = top})

FirstMin(bucket) ==
    LET bottom == MinOf({bucket[k].ft : k \in Known(bucket)})
    IN  MinOf({k \in Known(bucket) : bucket[k].ft = bottom})

\* C6 as claimed: in every non-empty bucket, High is the time of the first point
\* whose value is the bucket maximum and Low the time of the first point whose
\* value is the bucket minimum.
C6_FirstExtremes ==
    (DayBuilt /\ HasPredictions)
    => \A d \in 1..Len(dayCards) :
          LET bucket == dayCards[d].dayPredictions
          IN  Known(bucket) # {}
              => /\ dayCards[d].high = formatTime(bucket[FirstMax(bucket)].time)
                 /\ dayCards[d].low = formatTime(bucket[FirstMin(bucket)].time)

\* C6 on buckets without a missing reading (holds; kept as a regression check).
FirstExtremesOfKnownBuckets ==
    (DayBuilt /\ HasPredictions)
    => \A d \in 1..Len(dayCards) :
          LET bucket == dayCards[d].dayPredictions
          IN  (bucket # <<>> /\ Known(bucket) = 1..Len(bucket))
              => /\ dayCards[d].high = formatTime(bucket[FirstMax(bucket)].time)
                 /\ dayCards[d].low = formatTime(bucket[FirstMin(bucket)].time)

\* The example of C6: 06:00 2.1 ft, 12:00 -0.3 ft, 18:00 1.8 ft gives High at
\* 06:00 and Low at 12:00.
ExampleOfC6 ==
    /\ tidePredictions = <<[time |-> 1, ft |-> 21], [time |-> 2, ft |-> -3], [time |-> 3, ft |-> 18]>>
    /\ DayBuilt
    /\ dayCards[1].high = formatTime(1) /\ dayCards[1].low = formatTime(2)

\* C7 as claimed: evaluating the partition again on the same series gives, for
\* every day index, the same bucket and the same High and Low, whatever the
\* wall-clock instants of the two evaluations.
C7_SameAtAnyInstant ==
    [][(DayBuilt /\ HasPredictions /\ dayCards' # <<>>)
       => \A d \in 1..Len(dayCards) :
             /\ dayCards'[d].dayPredictions = dayCards[d].dayPredictions
             /\ dayCards'[d].high = dayCards[d].high
             /\ dayCards'[d].low = dayCards[d].low]_vars

KnownOnly(bucket) ==
    LET IsKnown(pred) == pred.ft # NullFt
    IN  SelectSeq(bucket, IsKnown)

\* C8 as claimed: a null height is never treated as 0: a bucket with a
\* null-valued point reports the High and Low of the bucket without that point,
\* and never a null-valued point while a non-null one exists.
C8_NullIsNotZero ==
    (DayBuilt /\ HasPredictions)
    => \A d \in 1..Len(dayCards) :
          LET bucket == dayCards[d].dayPredictions
              known == KnownOnly(bucket)
          IN  known # <<>>
              => /\ dayCards[d].high = formatTime(ScanHigh(known, 1, known[1]).time)
                 /\ dayCards[d].low = formatTime(ScanLow(known, 1, known[1]).time)
                 /\ \E k \in Known(bucket) : dayCards[d].high = formatTime(bucket[k].time)
                 /\ \E k \in Known(bucket) : dayCards[d].low = formatTime(bucket[k].time)

\* C9: for every day index with no prediction in [dayStart, dayEnd), and for a
\* null or empty series, High and Low are both 'N/A'.
C9_EmptyBucketIsNA ==
    DayBuilt
    => \A d \in 1..Len(dayCards) :
          LET empty == \/ IsNullList(tidePredictions)
                       \/ Len(tidePredictions) = 0
                       \/ \A k \in 1..Len(tidePredictions) :
                             \/ tidePredictions[k].time < dayCards[d].dayStart
                             \/ tidePredictions[k].time >= dayCards[d].dayStart + TicksPerDay
          IN  empty => (dayCards[d].high = TideNA /\ dayCards[d].low = TideNA)

\* C9 witness: a series whose first point lies on day 1 has been partitioned,
\* leaving the bucket of day 0 empty and reported as 'N/A'.
C9_Witness ==
    /\ DayBuilt /\ HasPredictions
    /\ tidePredictions[1].time >= EvalMidnight + TicksPerDay
    /\ dayCards[1].dayPredictions = <<>>
    /\ dayCards[1].high = TideNA
    /\ dayCards[2].high # TideNA

-----------------------------------------------------------------------------
(* 24-hour curve assembler: src/js/api/noaa.js *)

\* Sample spacings of the curve series: one or two ticks.
CurveGaps == {1, 2}

\* Heights of the curve samples: 1.8 ft or a missing reading.
CurveFt == {18, NullFt}

CurveSeries(maxLen) ==
    UNION {{MakeSeries(n, start, gaps, fts) :
               start \in 0..MaxT, gaps \in [1..(n - 1) -> CurveGaps], fts \in [1..n -> CurveFt]} :
           n \in 0..maxLen}

Abs(x) == IF x < 0 THEN 0 - x ELSE x

\* Variant of the scan that lets a later sample win a tie (diff <= minDiff).
RECURSIVE NearestScanLast(_, _, _, _, _)
NearestScanLast(preds, t, i, minDiff, nowIndex) ==
    IF i > Len(preds) THEN nowIndex
    ELSE IF Abs(preds[i].time - t) <= minDiff
         THEN NearestScanLast(preds, t, i + 1, Abs(preds[i].time - t), i - 1)
         ELSE NearestScanLast(preds, t, i + 1, minDiff, nowIndex)

\* The forEach of fetch24HourCurve from position i on (nowIndex is 0-based).
RECURSIVE NearestScan(_, _, _, _, _)
NearestScan(preds, t, i, minDiff, nowIndex) ==
    IF i > Len(preds) THEN nowIndex
    ELSE IF Abs(preds[i].time - t) < minDiff
         THEN NearestScan(preds, t, i + 1, Abs(preds[i].time - t), i - 1)
         ELSE NearestScan(preds, t, i + 1, minDiff, nowIndex)

\* minDiff starts at Infinity, so the first sample always becomes the candidate.
NearestIndex(preds, t) == NearestScan(preds, t, 2, Abs(preds[1].time - t), 0)

TimesOf(series) == [k \in 1..Len(series) |-> series[k].time]

HeightsOf(series) == [k \in 1..Len(series) |-> series[k].ft]

\* Variant of the assembler that puts the observed heights on the predicted
\* series' time axis.
fetch24HourCurveSharedAxis(preds, obs, t) ==
    IF IsNullList(preds) \/ Len(preds) = 0
    THEN Null
    ELSE [predicted |-> [times |-> TimesOf(preds), heights |-> HeightsOf(preds)],
          observed |-> IF ~IsNullList(obs) /\ Len(obs) > 0
                       THEN [times |-> [k \in 1..Len(obs) |->
                                           preds[IF k <= Len(preds) THEN k ELSE Len(preds)].time],
                             heights |-> HeightsOf(obs)]
                       ELSE Null,
          nowIndex |-> NearestIndex(preds, t)]

\* fetch24HourCurve after the two fetches have resolved to preds and obs.  The
\* function takes the station id only: no operating mode reaches it, and the
\* bundle it builds has no noPredictions field.
fetch24HourCurve(preds, obs, t) ==
    IF IsNullList(preds) \/ Len(preds) = 0
    THEN Null
    ELSE [predicted |-> [times |-> TimesOf(preds), heights |-> HeightsOf(preds)],
          observed |-> IF ~IsNullList(obs) /\ Len(obs) > 0
                       THEN [times |-> TimesOf(obs), heights |-> HeightsOf(obs)]
                       ELSE Null,
          nowIndex |-> NearestIndex(preds, t)]

InitCurve ==
    /\ predictions \in CurveSeries(MaxCurvePts)
    /\ observed \in CurveSeries(MaxObserved)
    /\ curveNow \in 0..MaxT
    /\ fallbackMode \in BOOLEAN
    /\ curve = Pending
    /\ IdleExcept("curve")

Fetch24HourCurve ==
    /\ curve = Pending
    /\ curve' = fetch24HourCurve(predictions, observed, curveNow)
    /\ UNCHANGED <<predictions, observed, curveNow, fallbackMode>>
    /\ UNCHANGED notCurveVars

NextCurve == Fetch24HourCurve

SpecCurve == InitCurve /\ [][NextCurve]_vars

-----------------------------------------------------------------------------
(* Properties of the curve assembler (checked under SpecCurve) *)

CurveDone == curve # Pending

\* C10 as claimed: with an empty predicted series and a non-empty observed
\* series the assembler returns, in no-predictions fallback mode, a bundle with
\* noPredictions = true and observed populated, and returns null when the
\* fallback is disabled.
C10_FallbackBundle ==
    (CurveDone /\ predictions = <<>> /\ observed # <<>>)
    => IF fallbackMode
       THEN /\ curve # Null
            /\ curve.noPredictions = TRUE
            /\ curve.observed # Null
       ELSE curve = Null

\* The half of C10 the code satisfies: an empty predicted series always gives
\* null, whatever the observed series and the mode.
EmptyPredictedGivesNull ==
    (CurveDone /\ predictions = <<>>) => curve = Null

\* C11: in every non-null bundle nowIndex is a valid index of the predicted
\* series, the sample at nowIndex is nearest to the current instant, and among
\* equally near samples the lowest index is the one chosen.
C11_NearestIndex ==
    (CurveDone /\ curve # Null)
    => /\ 0 <= curve.nowIndex
       /\ curve.nowIndex < Len(curve.predicted.times)
       /\ \A i \in 1..Len(curve.predicted.times) :
              /\ Abs(curve.predicted.times[curve.nowIndex + 1] - curveNow)
                    <= Abs(curve.predicted.times[i] - curveNow)
              /\ (i - 1 < curve.nowIndex)
                    => Abs(curve.predicted.times[curve.nowIndex + 1] - curveNow)
                         < Abs(curve.predicted.times[i] - curveNow)

\* Two samples equally near to now (one tick before, one tick after): the
\* earlier one is chosen.
C11_Witness ==
    /\ CurveDone
    /\ curve # Null
    /\ Len(predictions) = 2
    /\ curveNow - predictions[1].time = 1
    /\ predictions[2].time - curveNow = 1
    /\ curve.nowIndex = 0

\* C12: in every non-null bundle the observed field is null exactly when the
\* observed series is empty (or null); otherwise its times and heights are the
\* observed samples themselves, in their order and count, on their own time
\* axis.
C12_ObservedKept ==
    (CurveDone /\ curve # Null)
    => IF IsNullList(observed) \/ Len(observed) = 0
       THEN curve.observed = Null
       ELSE /\ curve.observed # Null
            /\ Len(curve.observed.times) = Len(observed)
            /\ Len(curve.observed.heights) = Len(observed)
            /\ \A k \in 1..Len(observed) :
                   /\ curve.observed.times[k] = observed[k].time
                   /\ curve.observed.heights[k] = observed[k].ft

\* An observed series whose instants differ from every predicted instant is
\* carried into the bundle unchanged.
C12_Witness ==
    /\ CurveDone
    /\ curve # Null
    /\ Len(observed) = 2
    /\ curve.observed # Null
    /\ curve.observed.times = <<observed[1].time, observed[2].time>>
    /\ \A k \in 1..Len(predictions) : \A j \in 1..2 :
           predictions[k].time # observed[j].time

-----------------------------------------------------------------------------
(* Trend classifier: src/js/utils/formatting.js.  The levels of this         *)
(* component and of fetchTideNow are integers in 1/128 ft: binary fractions, *)
(* whose differences the double arithmetic of the code computes exactly.     *)
(* Thresholds are integers in 1/640 ft, a fifth of that unit, in which the   *)
(* default of 0.05 ft is a whole number; a threshold that is no binary       *)
(* fraction is never equal to a difference of levels.                        *)

MaxLevel == 3        \* trend levels range over 0..MaxLevel
MaxThreshold == 5    \* thresholds range over -MaxThreshold..MaxThreshold

\* One level unit (1/128 ft) in threshold units (1/640 ft).
ThresholdUnitsPerLevelUnit == 5

\* The default value of the threshold parameter, 0.05 ft = 32/640 ft.
DefaultThreshold == 32

TrendLevels == (0..MaxLevel) \cup {NullFt}

Thresholds == (0 - MaxThreshold)..MaxThreshold

\* Variant whose comparisons include the threshold itself (>=, <=).
determineTrendInclusive(current, previous, thr) ==
    IF current = NullFt \/ previous = NullFt THEN "unknown"
    ELSE LET diff == ThresholdUnitsPerLevelUnit * (current - previous)
         IN  IF diff >= thr THEN "rising"
             ELSE IF diff <= 0 - thr THEN "falling"
             ELSE "steady"

\* Variant whose falling test ignores the threshold (diff < 0).
determineTrendLopsided(current, previous, thr) ==
    IF current = NullFt \/ previous = NullFt THEN "unknown"
    ELSE LET diff == ThresholdUnitsPerLevelUnit * (current - previous)
         IN  IF diff > thr THEN "rising"
             ELSE IF diff < 0 THEN "falling"
             ELSE "steady"

determineTrend(current, previous, thr) ==
    IF current = NullFt \/ previous = NullFt THEN "unknown"
    ELSE LET diff == ThresholdUnitsPerLevelUnit * (current - previous)
         IN  IF diff > thr THEN "rising"
             ELSE IF diff < 0 - thr THEN "falling"
             ELSE "steady"

InitTrend ==
    /\ currentLevel \in TrendLevels
    /\ previousLevel \in TrendLevels
    /\ threshold \in Thresholds
    /\ trend = NotCalled
    /\ swappedTrend = NotCalled
    /\ IdleExcept("trend")

DetermineTrend ==
    /\ trend = NotCalled
    /\ trend' = determineTrend(currentLevel, previousLevel, threshold)
    /\ UNCHANGED <<currentLevel, previousLevel, threshold, swappedTrend>>
    /\ UNCHANGED notTrendVars

\* The same call with the two level arguments exchanged.
DetermineTrendSwapped ==
    /\ swappedTrend = NotCalled
    /\ swappedTrend' = determineTrend(previousLevel, currentLevel, threshold)
    /\ UNCHANGED <<currentLevel, previousLevel, threshold, trend>>
    /\ UNCHANGED notTrendVars

NextTrend == DetermineTrend \/ DetermineTrendSwapped

SpecTrend == InitTrend /\ [][NextTrend]_vars

-----------------------------------------------------------------------------
(* Properties of the trend classifier (checked under SpecTrend) *)

TrendDone == trend # NotCalled

LevelsKnown == currentLevel # NullFt /\ previousLevel # NullFt

\* The change of level in the unit of the threshold.
LevelDiff == ThresholdUnitsPerLevelUnit * (currentLevel - previousLevel)

\* The three-way rule as the claim words it.
ThreeWayRule ==
    /\ trend \in {"rising", "falling", "steady", "unknown"}
    /\ (trend = "unknown") <=> ~LevelsKnown
    /\ LevelsKnown
       => /\ (trend = "rising") <=> (LevelDiff > threshold)
          /\ (trend = "falling") <=> (LevelDiff < 0 - threshold)
          /\ (trend = "steady")
               <=> (~(LevelDiff > threshold) /\ ~(LevelDiff < 0 - threshold))

\* C13 as claimed: for all levels (null included) and every threshold,
\* determineTrend returns exactly one of the four labels, 'unknown' iff a level
\* is null, otherwise 'rising' iff diff > threshold, 'falling' iff
\* diff < -threshold, and 'steady' in all remaining cases.
C13_ThreeWayEveryThreshold == TrendDone => ThreeWayRule

\* C13 as the code has it: the three-way rule holds for every threshold >= 0;
\* with a negative threshold the two conditions overlap, the rising test is
\* made first, and 'steady' is never returned.
C13_ThreeWayNonNegative ==
    TrendDone
    => IF threshold >= 0
       THEN ThreeWayRule
       ELSE /\ (trend = "unknown") <=> ~LevelsKnown
            /\ LevelsKnown
               => /\ (trend = "rising") <=> (LevelDiff > threshold)
                  /\ (trend = "falling") <=> (LevelDiff <= threshold)

\* A change exactly equal to a positive threshold is 'steady'.
C13_Witness ==
    /\ TrendDone
    /\ LevelsKnown
    /\ threshold > 0
    /\ LevelDiff = threshold
    /\ trend = "steady"

Flip(label) ==
    IF label = "rising" THEN "falling"
    ELSE IF label = "falling" THEN "rising"
    ELSE label

BothDone == trend # NotCalled /\ swappedTrend # NotCalled

\* C14 as claimed: for all (current, previous, threshold), exchanging the two
\* levels turns 'rising' into 'falling' and 'falling' into 'rising', and leaves
\* 'steady' and 'unknown' as they are.
C14_SwapFlipsEveryThreshold == BothDone => swappedTrend = Flip(trend)

\* C14 as the code has it: the exchange flips the label for every threshold
\* >= 0.
C14_SwapFlipsNonNegative ==
    (BothDone /\ threshold >= 0) => swappedTrend = Flip(trend)

\* A rise of more than the threshold, read backwards, is a fall.
C14_Witness ==
    /\ BothDone
    /\ threshold >= 0
    /\ trend = "rising"
    /\ swappedTrend = "falling"

-----------------------------------------------------------------------------
(* Current tide status: fetchTideNow, src/js/api/noaa.js *)

\* Heights of the samples fetchTideNow compares: 224/128 = 1.75 ft,
\* 228/128 = 1.78125 ft and 240/128 = 1.875 ft, or a missing reading.
TideNowFt == {224, 228, 240, NullFt}

\* Observed water level: 232/128 = 1.8125 ft or a missing reading.
TideNowObserved == {232, NullFt}

TideNowSeries ==
    UNION {{MakeSeries(n, start, gaps, fts) :
               start \in 0..MaxT, gaps \in [1..(n - 1) -> CurveGaps],
               fts \in [1..n -> TideNowFt]} :
           n \in 0..MaxCurvePts}

\* The series last sample first.
Reversed(list) == [k \in 1..Len(list) |-> list[Len(list) + 1 - k]]

\* The reply is not known to be in time order: fetchTideNow sorts a copy of it.
TideNowSeriesAnyOrder == TideNowSeries \cup {Reversed(series) : series \in TideNowSeries}

\* Hi/lo lists of fetchTideNow: none, or a High at tick 0 and a later Low.
TideNowEvents ==
    {<<>>} \cup {<<[time |-> 0, kind |-> "High"], [time |-> b, kind |-> "Low"]>> :
                    b \in 1..MaxT}

\* The forEach of fetchTideNow from position i on: predicted is the height of
\* the nearest sample so far.
RECURSIVE PredictedScan(_, _, _, _, _)
PredictedScan(preds, t, i, minDiff, predicted) ==
    IF i > Len(preds) THEN predicted
    ELSE IF Abs(preds[i].time - t) < minDiff
         THEN PredictedScan(preds, t, i + 1, Abs(preds[i].time - t), preds[i].ft)
         ELSE PredictedScan(preds, t, i + 1, minDiff, predicted)

\* Variant that treats a missing side of the difference as 0.
DeltaNullAsZero(obs, predicted) == ToNumber(obs) - ToNumber(predicted)

Delta(obs, predicted) ==
    IF obs # NullFt /\ predicted # NullFt THEN obs - predicted ELSE NullFt

\* [...predictions].sort((a, b) => a.time - b.time): stable insertion by time.
RECURSIVE InsertByTime(_, _)
InsertByTime(sorted, p) ==
    IF Len(sorted) = 0 THEN <<p>>
    ELSE IF sorted[Len(sorted)].time <= p.time THEN Append(sorted, p)
    ELSE Append(InsertByTime(SubSeq(sorted, 1, Len(sorted) - 1), p), sorted[Len(sorted)])

RECURSIVE SortByTime(_)
SortByTime(list) ==
    IF Len(list) = 0 THEN <<>>
    ELSE InsertByTime(SortByTime(SubSeq(list, 1, Len(list) - 1)), list[Len(list)])

\* sorted.findIndex(p => p.time >= now), 0-based, -1 when there is none.
FindIndexAtOrAfter(sorted, t) ==
    IF \E k \in 1..Len(sorted) : sorted[k].time >= t
    THEN MinOf({k \in 1..Len(sorted) : sorted[k].time >= t}) - 1
    ELSE 0 - 1

\* Variant that searches the series as it was returned, without sorting it.
TideNowTrendUnsorted(preds, t) ==
    IF Len(preds) >= 2
    THEN LET nowIdx == FindIndexAtOrAfter(preds, t)
         IN  IF nowIdx > 0 /\ nowIdx < Len(preds)
             THEN determineTrend(preds[nowIdx + 1].ft, preds[nowIdx].ft, DefaultThreshold)
             ELSE "unknown"
    ELSE "unknown"

TideNowTrend(preds, t) ==
    IF Len(preds) >= 2
    THEN LET sorted == SortByTime(preds)
             nowIdx == FindIndexAtOrAfter(sorted, t)
         IN  IF nowIdx > 0 /\ nowIdx < Len(sorted)
             THEN determineTrend(sorted[nowIdx + 1].ft, sorted[nowIdx].ft, DefaultThreshold)
             ELSE "unknown"
    ELSE "unknown"

\* fetchTideNow after its three fetches have resolved to obs, preds and evts.
fetchTideNow(obs, preds, t, evts) ==
    LET predicted == IF Len(preds) > 0
                     THEN PredictedScan(preds, t, 2, Abs(preds[1].time - t), preds[1].ft)
                     ELSE NullFt
    IN  [observed |-> obs,
         predicted |-> predicted,
         delta |-> Delta(obs, predicted),
         trend |-> TideNowTrend(preds, t),
         phaseText |-> computePhaseFromHilo(evts, t).text]

InitTideNow ==
    /\ tnObserved \in TideNowObserved
    /\ tnPredictions \in TideNowSeriesAnyOrder
    /\ tnNow \in 0..MaxT
    /\ tnEvents \in TideNowEvents
    /\ tideNow = Pending
    /\ IdleExcept("tideNow")

FetchTideNow ==
    /\ tideNow = Pending
    /\ tideNow' = fetchTideNow(tnObserved, tnPredictions, tnNow, tnEvents)
    /\ UNCHANGED <<tnObserved, tnPredictions, tnNow, tnEvents>>
    /\ UNCHANGED notTideNowVars

NextTideNow == FetchTideNow

SpecTideNow == InitTideNow /\ [][NextTideNow]_vars

-----------------------------------------------------------------------------
(* Properties of fetchTideNow (checked under SpecTideNow) *)

TideNowDone == tideNow # Pending

\* Index of the first sample at minimal distance from now.
FirstNearest(preds, t) ==
    MinOf({k \in 1..Len(preds) :
              \A j \in 1..Len(preds) : Abs(preds[k].time - t) <= Abs(preds[j].time - t)})

\* C15: the predicted level is the value of the one sample nearest in time to
\* now (the first on ties, no interpolation); delta is observed - predicted
\* when both are known and null as soon as one of them is null.
C15_NearestSampleDelta ==
    TideNowDone
    => /\ tideNow.predicted = IF Len(tnPredictions) = 0 THEN NullFt
                              ELSE tnPredictions[FirstNearest(tnPredictions, tnNow)].ft
       /\ IF tnObserved # NullFt /\ tideNow.predicted # NullFt
          THEN tideNow.delta = tnObserved - tideNow.predicted
          ELSE tideNow.delta = NullFt

\* now lies midway between two samples of different heights: the earlier one
\* gives the predicted level, and the delta is taken against it.
C15_Witness ==
    /\ TideNowDone
    /\ Len(tnPredictions) = 2
    /\ tnNow - tnPredictions[1].time = 1
    /\ tnPredictions[2].time - tnNow = 1
    /\ tnPredictions[1].ft = 224
    /\ tnPredictions[2].ft = 240
    /\ tnObserved = 232
    /\ tideNow.predicted = 224
    /\ tideNow.delta = 8

\* Positions of the samples strictly before now, and of those at or after now.
SamplesBefore == {k \in 1..Len(tnPredictions) : tnPredictions[k].time < tnNow}
SamplesAtOrAfter == {k \in 1..Len(tnPredictions) : tnPredictions[k].time >= tnNow}

\* The sample of the latest time among the positions S, and of the earliest.
LatestOf(S) ==
    tnPredictions[CHOOSE k \in S : \A j \in S : tnPredictions[j].time <= tnPredictions[k].time]
EarliestOf(S) ==
    tnPredictions[CHOOSE k \in S : \A j \in S : tnPredictions[k].time <= tnPredictions[j].time]

NoEarlierSampleUnknown ==
    (TideNowDone /\ SamplesBefore = {}) => tideNow.trend = "unknown"

\* A missing observed level with a known predicted level gives a null delta.
NullObservedGivesNullDelta ==
    (TideNowDone /\ tnObserved = NullFt) => tideNow.delta = NullFt

-----------------------------------------------------------------------------
(* One network call: noaaGet (src/js/api/noaa.js), nwsGet and                *)
(* fetchSunMoonData.  Time is counted in ticks of five seconds.              *)

NumCalls == 2        \* network calls in flight side by side
MaxClock == 4        \* the network clock runs over 0..MaxClock

\* The 10-second deadline of setTimeout(() => controller.abort(), ...), in ticks.
REQUEST_TIMEOUT == 2

Calls == 1..NumCalls

CallKinds == {"noaaGet", "nwsGet", "fetchSunMoonData"}

\* What a server can send as the body of its response.
Bodies == {"data", "errorPayload", "notJson"}

\* if (!response.ok) return null: present in nwsGet and fetchSunMoonData only.
ChecksStatus(kind) == kind # "noaaGet"

\* What the request function returns once response.json() has settled.
BodyResult(kind, body) ==
    IF body = "notJson" THEN "null"
    ELSE IF body = "errorPayload" /\ kind # "nwsGet" THEN "null"
    ELSE "data"

InitCall ==
    /\ callKind \in [Calls -> CallKinds]
    /\ callStage = [c \in Calls |-> "notIssued"]
    /\ callResult = [c \in Calls |-> "none"]
    /\ timeoutId = [c \in Calls |-> "none"]
    /\ issuedAt = [c \in Calls |-> 0]
    /\ netClock = 0
    /\ IdleExcept("call")

\* The timer is armed and fetch is called.
IssueCall(c) ==
    /\ callStage[c] = "notIssued"
    /\ callStage' = [callStage EXCEPT ![c] = "awaitingHeaders"]
    /\ timeoutId' = [timeoutId EXCEPT ![c] = "armed"]
    /\ issuedAt' = [issuedAt EXCEPT ![c] = netClock]
    /\ UNCHANGED <<callKind, callResult, netClock>>
    /\ UNCHANGED notCallVars

\* fetch resolves with the response headers: the timer is cleared, then the
\* status is tested (where the function tests it) and the body awaited.
ReceiveHeaders(c, ok) ==
    /\ callStage[c] = "awaitingHeaders"
    /\ timeoutId' = [timeoutId EXCEPT ![c] = "cleared"]
    /\ IF ChecksStatus(callKind[c]) /\ ~ok
       THEN /\ callStage' = [callStage EXCEPT ![c] = "settled"]
            /\ callResult' = [callResult EXCEPT ![c] = "null"]
       ELSE /\ callStage' = [callStage EXCEPT ![c] = "awaitingBody"]
            /\ UNCHANGED callResult
    /\ UNCHANGED <<callKind, issuedAt, netClock>>
    /\ UNCHANGED notCallVars

\* response.json() settles.
ReceiveBody(c, body) ==
    /\ callStage[c] = "awaitingBody"
    /\ callStage' = [callStage EXCEPT ![c] = "settled"]
    /\ callResult' = [callResult EXCEPT ![c] = BodyResult(callKind[c], body)]
    /\ UNCHANGED <<callKind, timeoutId, issuedAt, netClock>>
    /\ UNCHANGED notCallVars

\* The connection fails: fetch or response.json() rejects and the catch block
\* returns null (without clearing a timer that is still armed).
NetworkError(c) ==
    /\ callStage[c] \in {"awaitingHeaders", "awaitingBody"}
    /\ callStage' = [callStage EXCEPT ![c] = "settled"]
    /\ callResult' = [callResult EXCEPT ![c] = "null"]
    /\ UNCHANGED <<callKind, timeoutId, issuedAt, netClock>>
    /\ UNCHANGED notCallVars

TimerDue(c) == timeoutId[c] = "armed" /\ netClock - issuedAt[c] >= REQUEST_TIMEOUT

\* The timer callback runs controller.abort(): a fetch still waiting for its
\* headers rejects, and the catch block returns null.
TimeoutFires(c) ==
    /\ TimerDue(c)
    /\ timeoutId' = [timeoutId EXCEPT ![c] = "fired"]
    /\ IF callStage[c] = "awaitingHeaders"
       THEN /\ callStage' = [callStage EXCEPT ![c] = "settled"]
            /\ callResult' = [callResult EXCEPT ![c] = "null"]
       ELSE UNCHANGED <<callStage, callResult>>
    /\ UNCHANGED <<callKind, issuedAt, netClock>>
    /\ UNCHANGED notCallVars

\* Five seconds pass; a timer that is due runs before time moves on.
TickNet ==
    /\ netClock < MaxClock
    /\ \A c \in Calls : ~TimerDue(c)
    /\ netClock' = netClock + 1
    /\ UNCHANGED <<callKind, callStage, callResult, timeoutId, issuedAt>>
    /\ UNCHANGED notCallVars

NextCall ==
    \/ \E c \in Calls : IssueCall(c)
    \/ \E c \in Calls, ok \in BOOLEAN : ReceiveHeaders(c, ok)
    \/ \E c \in Calls, body \in Bodies : ReceiveBody(c, body)
    \/ \E c \in Calls : NetworkError(c)
    \/ \E c \in Calls : TimeoutFires(c)
    \/ TickNet

SpecCall == InitCall /\ [][NextCall]_vars

-----------------------------------------------------------------------------
(* Properties of a network call (checked under SpecCall) *)

InFlight(c) == callStage[c] \in {"awaitingHeaders", "awaitingBody"}

\* C19 as claimed: every network call settles, with data or with null, no
\* later than its 10-second deadline after being issued, whatever the server
\* does: no call is still in flight once its deadline has passed.
C19_SettlesByDeadline ==
    \A c \in Calls : InFlight(c) => netClock - issuedAt[c] <= REQUEST_TIMEOUT

\* What the timer does enforce: the response headers arrive by the deadline or
\* the call is aborted.
HeadersByDeadline ==
    \A c \in Calls :
        callStage[c] = "awaitingHeaders" => netClock - issuedAt[c] <= REQUEST_TIMEOUT

\* A timer that fires settles its own call only.
TimeoutAbortsOnlyThatCall ==
    [][\A c \in Calls :
          (timeoutId[c] = "armed" /\ timeoutId'[c] = "fired")
          => \A d \in Calls \ {c} : callStage'[d] = callStage[d] /\ callResult'[d] = callResult[d]]_vars

-----------------------------------------------------------------------------
(* One station click: handleStationClick (src/js/map.js) and the requests    *)
(* its data sources make.                                                    *)

NumOtherSources == 1  \* sources modelled besides the four core ones

\* Of the ten calls joined by Promise.all the model always has these four ...
CoreSources == {"tideNow", "curve", "waterTempHistory", "airTemp"}

\* ... and the first NumOtherSources of the remaining six.
OtherSources == <<"windForecast", "pressure", "nextTide", "waterTemp", "wind", "sunMoon">>

Sources ==
    CoreSources \cup {OtherSources[i] : i \in {j \in 1..Len(OtherSources) : j <= NumOtherSources}}

\* The request of the NWS fallback of fetchAirTemp (fetchNWSTemperature).
fetchNWSTemperatureRequests == {"airTempNws"}

\* The network requests each source makes.
SourceRequests(src) ==
    IF src = "tideNow" THEN {"waterLevel", "tideNowPredictions", "tideNowHilo"}
    ELSE IF src = "nextTide" THEN {"nextTideHilo"}
    ELSE IF src = "curve" THEN {"curvePredictions", "curveObserved"}
    ELSE IF src = "waterTemp" THEN {"waterTemp"}
    ELSE IF src = "waterTempHistory" THEN {"waterTempHistory"}
    ELSE IF src = "airTemp" THEN {"airTempNoaa"} \cup fetchNWSTemperatureRequests
    ELSE IF src = "wind" THEN {"wind"}
    ELSE IF src = "windForecast" THEN {"forecastPoints", "forecastHourly"}
    ELSE IF src = "pressure" THEN {"pressurePoints", "pressureStations", "pressureObservations"}
    ELSE {"sunMoon"}

Requests == UNION {SourceRequests(src) : src \in Sources}

\* The requests made before the first await of each source: they are issued
\* while the argument list of Promise.all is evaluated.
FirstRequests ==
    Requests \cap {"waterLevel", "nextTideHilo", "curvePredictions", "curveObserved",
                   "waterTemp", "waterTempHistory", "airTempNoaa", "wind",
                   "forecastPoints", "pressurePoints", "sunMoon"}

\* The request a source makes when its await of request r resumes with result
\* res ("" when it makes none).
Followup(r, res) ==
    IF res = "rejected" THEN ""
    ELSE IF r = "waterLevel" THEN "tideNowPredictions"
    ELSE IF r = "tideNowPredictions" THEN "tideNowHilo"
    ELSE IF r = "airTempNoaa" /\ res = "absent" THEN "airTempNws"
    ELSE IF r = "forecastPoints" /\ res = "data" THEN "forecastHourly"
    ELSE IF r = "pressurePoints" /\ res = "data" THEN "pressureStations"
    ELSE IF r = "pressureStations" /\ res = "data" THEN "pressureObservations"
    ELSE ""

\* The request function each request goes through.
RequestKind(r) ==
    IF r \in {"waterLevel", "tideNowPredictions", "tideNowHilo", "nextTideHilo",
              "curvePredictions", "curveObserved", "waterTemp", "waterTempHistory",
              "airTempNoaa", "wind"}
    THEN "noaaGet"
    ELSE IF r = "sunMoon" THEN "fetchSunMoonData"
    ELSE "nwsGet"

\* What can happen to a request: it succeeds, or it fails: no response, the
\* timer aborts it, the response has an error status (with a body that carries
\* no data, or with one that does), or an ok status and an error payload.
Outcomes == {"ok", "networkError", "timeout", "httpError", "httpErrorWithData", "apiError"}

\* Variant in which a network error escapes the request function.
RequestResultRethrow(r, outcome) ==
    IF outcome = "ok" THEN "data"
    ELSE IF outcome = "httpErrorWithData" /\ ~ChecksStatus(RequestKind(r)) THEN "data"
    ELSE IF outcome = "networkError" THEN "rejected"
    ELSE "absent"

\* What the fetcher built on request r resolves to: its data, or null / an
\* empty series after a failure (try/catch and the !data guards).  noaaGet
\* does not look at the status: data sent with an error status are data.
RequestResult(r, outcome) ==
    IF outcome = "ok" THEN "data"
    ELSE IF outcome = "httpErrorWithData" /\ ~ChecksStatus(RequestKind(r)) THEN "data"
    ELSE "absent"

Settled(st) == st \in {"data", "absent", "rejected"}

SourceRejected(rs, src) == \E r \in SourceRequests(src) : rs[r] = "rejected"

\* Variant in which a source counts as resolved as soon as one of its requests
\* has settled (it does not await the requests that follow).
SourceResolvedEarly(rs, src) ==
    /\ ~SourceRejected(rs, src)
    /\ \E r \in SourceRequests(src) : Settled(rs[r])

\* A source has resolved when none of its requests is in flight any more.
SourceResolved(rs, src) ==
    /\ ~SourceRejected(rs, src)
    /\ \A r \in SourceRequests(src) : rs[r] # "inFlight"
    /\ \E r \in SourceRequests(src) : Settled(rs[r])

\* Whether a resolved source hands data to the popup.  fetchTideNow always
\* returns an object, whose fields may be null.
SourceValue(rs, src) ==
    IF src = "tideNow" THEN "present"
    ELSE IF src = "nextTide" THEN (IF rs["nextTideHilo"] = "data" THEN "present" ELSE "absent")
    ELSE IF src = "curve" THEN (IF rs["curvePredictions"] = "data" THEN "present" ELSE "absent")
    ELSE IF src = "airTemp"
         THEN (IF rs["airTempNoaa"] = "data" \/ rs["airTempNws"] = "data"
               THEN "present" ELSE "absent")
    ELSE IF src = "windForecast" THEN (IF rs["forecastHourly"] = "data" THEN "present" ELSE "absent")
    ELSE IF src = "pressure"
         THEN (IF rs["pressureObservations"] = "data" THEN "present" ELSE "absent")
    ELSE (IF rs[src] = "data" THEN "present" ELSE "absent")

InitClick ==
    /\ reqState = [r \in Requests |-> "notIssued"]
    /\ popupState = "closed"
    /\ sections = <<>>
    /\ frame = "none"
    /\ drawn = {}
    /\ IdleExcept("click")

\* handleStationClick up to its await: the loading popup is opened and the
\* ten sources are called, each running up to its own first await.
ClickStation ==
    /\ popupState = "closed"
    /\ popupState' = "loading"
    /\ reqState' = [r \in Requests |-> IF r \in FirstRequests THEN "inFlight" ELSE "notIssued"]
    /\ UNCHANGED <<sections, frame, drawn>>
    /\ UNCHANGED notClickVars

\* Request r settles.  Its source resumes and either makes its next request or
\* settles itself; when that settles Promise.all, handleStationClick resumes in
\* the same turn: it builds and sets the content and requests a frame, or its
\* catch block sets the error panel.
Settle(r, outcome) ==
    /\ reqState[r] = "inFlight"
    /\ LET res == RequestResult(r, outcome)
           next == Followup(r, res)
           rs == [q \in Requests |->
                     IF q = r THEN res ELSE IF q = next THEN "inFlight" ELSE reqState[q]]
       IN  /\ reqState' = rs
           /\ IF popupState # "loading"
              THEN UNCHANGED <<popupState, sections, frame>>
              ELSE IF \E src \in Sources : SourceRejected(rs, src)
              THEN /\ popupState' = "error"
                   /\ UNCHANGED <<sections, frame>>
              ELSE IF \A src \in Sources : SourceResolved(rs, src)
              THEN /\ popupState' = "content"
                   /\ sections' = [src \in Sources |-> SourceValue(rs, src)]
                   /\ frame' = "requested"
              ELSE UNCHANGED <<popupState, sections, frame>>
    /\ UNCHANGED drawn
    /\ UNCHANGED notClickVars

\* The requestAnimationFrame callback: the charts that have data are rendered.
RenderCharts ==
    /\ frame = "requested"
    /\ frame' = "done"
    /\ drawn' = {slot \in {"tide-chart", "water-temp-chart"} :
                    \/ slot = "tide-chart" /\ sections["curve"] = "present"
                    \/ slot = "water-temp-chart" /\ sections["waterTempHistory"] = "present"}
    /\ UNCHANGED <<reqState, popupState, sections>>
    /\ UNCHANGED notClickVars

NextClick ==
    \/ ClickStation
    \/ \E r \in Requests, outcome \in Outcomes : Settle(r, outcome)
    \/ RenderCharts

SpecClick == InitClick /\ [][NextClick]_vars

-----------------------------------------------------------------------------
(* Properties of a station click (checked under SpecClick) *)

Clicked == popupState # "closed"

AllSettled == Clicked /\ \A r \in Requests : reqState[r] \in {"notIssued", "data", "absent", "rejected"}

C20_AllIssuedBeforeAnySettles ==
    [][\A r \in Requests :
          (reqState[r] = "notIssued" /\ reqState'[r] = "inFlight")
          => \A q \in Requests \ {r} : ~Settled(reqState'[q])]_vars

\* What the code does issue together: the first request of every source.
FirstRequestsIssuedTogether ==
    [][(~Clicked /\ Clicked') => \A r \in FirstRequests : reqState'[r] = "inFlight"]_vars

-----------------------------------------------------------------------------
(* Popups and chart slots over several clicks: handleStationClick,           *)
(* handleForecastClick (src/unnamed/part_008) and src/js/ui/chart.js.        *)

MaxClicks == 4       \* clicks in one run

Stations == {"A", "B"}

\* The canvases of the seven day cards of a forecast popup.
DaySlots ==
    <<"day-tide-chart-0", "day-tide-chart-1", "day-tide-chart-2", "day-tide-chart-3",
      "day-tide-chart-4", "day-tide-chart-5", "day-tide-chart-6">>

DaySlotSet == {DaySlots[d] : d \in 1..Len(DaySlots)}

Slots == {"tide-chart", "water-temp-chart"} \cup DaySlotSet

\* How many elements the weather forecast of a batch has, one day card each:
\* none, the first three days, or the seven days.
CardCounts == {0, 3, NumDays}

\* The day indexes on which the 7-day series of a batch has a prediction, as
\* the filter of renderDayTideSparkline finds them: none (also for a null or
\* empty series), two days of the week, or every day.
TideDaySets == {{}, {2, 3}, 0..(NumDays - 1)}

\* A batch that has been started and has not resolved yet.
NewBatch(kind, station) ==
    [kind |-> kind, station |-> station, stage |-> "fetching",
     curve |-> FALSE, history |-> FALSE, cards |-> 0, tideDays |-> {}]

\* What is left of a handler invocation that has finished and whose popup is
\* closed: nothing the program can reach any more.
Finished ==
    [kind |-> "finished", station |-> "", stage |-> "finished",
     curve |-> FALSE, history |-> FALSE, cards |-> 0, tideDays |-> {}]

Retire(bs, open) ==
    [k \in 1..Len(bs) |->
        IF k # open /\ bs[k].stage \in {"rendered", "failed"} THEN Finished ELSE bs[k]]

NoCanvasData == [slot \in Slots |-> 0]

\* document.getElementById(slot) finds a canvas: the open popup displays
\* content that contains one.  A forecast popup has one canvas per day card.
CanvasInDom(slot) ==
    /\ popupContent # Null
    /\ popupContent.view = "content"
    /\ LET shown == batches[popupContent.batch]
       IN  IF shown.kind = "station"
           THEN slot = "tide-chart" \/ (slot = "water-temp-chart" /\ shown.history)
           ELSE \E d \in 1..shown.cards : slot = DaySlots[d]

\* popup.setContent of batch k: displayed only while that popup is the open one.
SetContent(k, view) ==
    IF k = openBatch THEN [batch |-> k, view |-> view] ELSE popupContent

\* The canvases after popup.setContent of batch k: new, empty ones if the
\* displayed content was replaced.
CanvasesAfterSetContent(k) == IF k = openBatch THEN NoCanvasData ELSE canvasData

\* renderTideChart / renderWaterTempChart: the module's current chart of the
\* slot, if any, is destroyed, then the new one is created.
RenderSingleton(liveNow) == (IF liveNow > 0 THEN liveNow - 1 ELSE liveNow) + 1

InitPopup ==
    /\ batches = <<>>
    /\ openBatch = 0
    /\ popupContent = Null
    /\ canvasData = NoCanvasData
    /\ live = [slot \in Slots |-> 0]
    /\ IdleExcept("popup")

\* A click opens a loading popup (closing the one that was open) and starts
\* its batch.
OpenLoadingPopup(kind, station) ==
    /\ Len(batches) < MaxClicks
    /\ batches' = Retire(Append(batches, NewBatch(kind, station)), Len(batches) + 1)
    /\ openBatch' = Len(batches) + 1
    /\ popupContent' = [batch |-> Len(batches) + 1, view |-> "loading"]
    /\ canvasData' = NoCanvasData
    /\ UNCHANGED live
    /\ UNCHANGED notPopupVars

HandleStationClick(station) == OpenLoadingPopup("station", station)

\* The Forecast button is part of a displayed station popup.
HandleForecastClick ==
    /\ popupContent # Null
    /\ popupContent.view = "content"
    /\ batches[popupContent.batch].kind = "station"
    /\ OpenLoadingPopup("forecast", batches[popupContent.batch].station)

\* Promise.all of batch k resolves: the content is built and set, and a frame
\* is requested.
BatchResolves(k, curveData, historyData, weatherCount, tideDays) ==
    /\ batches[k].stage = "fetching"
    /\ IF batches[k].kind = "station"
       THEN weatherCount = 0 /\ tideDays = {}
       ELSE ~curveData /\ ~historyData
    /\ batches' = [batches EXCEPT ![k] = [@ EXCEPT !.stage = "contentSet",
                                                    !.curve = curveData,
                                                    !.history = historyData,
                                                    !.cards = weatherCount,
                                                    !.tideDays = tideDays]]
    /\ popupContent' = SetContent(k, "content")
    /\ canvasData' = CanvasesAfterSetContent(k)
    /\ UNCHANGED <<openBatch, live>>
    /\ UNCHANGED notPopupVars

\* Variant whose catch block only logs the error and leaves the popup as it is.
BatchRejectsSilent(k) ==
    /\ batches[k].stage = "fetching"
    /\ batches' = Retire([batches EXCEPT ![k] = [@ EXCEPT !.stage = "failed"]], openBatch)
    /\ UNCHANGED <<openBatch, popupContent, canvasData, live>>
    /\ UNCHANGED notPopupVars

\* Promise.all of batch k rejects, or building the content throws: the catch
\* block sets the error panel.  No frame has been requested.
BatchRejects(k) ==
    /\ batches[k].stage = "fetching"
    /\ batches' = Retire([batches EXCEPT ![k] = [@ EXCEPT !.stage = "failed"]], openBatch)
    /\ popupContent' = SetContent(k, "error")
    /\ canvasData' = CanvasesAfterSetContent(k)
    /\ UNCHANGED <<openBatch, live>>
    /\ UNCHANGED notPopupVars

\* The frame callback of a station batch: renderTideChart(curve) if there is a
\* curve, renderWaterTempChart(waterTempHistory) if there is a history; each
\* returns early when its canvas is not in the DOM.
RenderStationFrame(k) ==
    /\ batches[k].stage = "contentSet"
    /\ batches[k].kind = "station"
    /\ batches' = Retire([batches EXCEPT ![k] = [@ EXCEPT !.stage = "rendered"]], openBatch)
    /\ LET drawTide == batches[k].curve /\ CanvasInDom("tide-chart")
           drawTemp == batches[k].history /\ CanvasInDom("water-temp-chart")
       IN  /\ live' = [slot \in Slots |->
                          IF slot = "tide-chart" /\ drawTide
                          THEN RenderSingleton(live[slot])
                          ELSE IF slot = "water-temp-chart" /\ drawTemp
                          THEN RenderSingleton(live[slot])
                          ELSE live[slot]]
           /\ canvasData' = [slot \in Slots |->
                                IF (slot = "tide-chart" /\ drawTide)
                                   \/ (slot = "water-temp-chart" /\ drawTemp)
                                THEN k ELSE canvasData[slot]]
    /\ UNCHANGED <<openBatch, popupContent>>
    /\ UNCHANGED notPopupVars

\* renderDayTideSparkline(dayIndex, tidePredictions7Day) of batch k reaches its
\* new Chart: the canvas of the day is in the DOM and the day has predictions.
ReachesNewChart(k, dayIndex) ==
    /\ dayIndex \in batches[k].tideDays
    /\ CanvasInDom(DaySlots[dayIndex + 1])

\* The day at which the for loop of the frame callback of batch k ends: the
\* first day whose new Chart finds a chart on its canvas when the chart library
\* throws on that, the day after the last otherwise.
RECURSIVE LoopEnd(_, _, _)
LoopEnd(k, throws, dayIndex) ==
    IF dayIndex >= NumDays THEN NumDays
    ELSE IF throws /\ ReachesNewChart(k, dayIndex) /\ canvasData[DaySlots[dayIndex + 1]] # 0
         THEN dayIndex
         ELSE LoopEnd(k, throws, dayIndex + 1)

\* The frame callback of a forecast batch: renderDayTideSparkline for day 0 to
\* 6 in turn, each a new Chart that is neither kept nor destroyed.  On a canvas
\* that already carries a chart the chart library either throws (throws = TRUE,
\* the loop ends there) or creates the chart all the same.
RenderForecastFrame(k, throws) ==
    /\ batches[k].stage = "contentSet"
    /\ batches[k].kind = "forecast"
    /\ batches' = Retire([batches EXCEPT ![k] = [@ EXCEPT !.stage = "rendered"]], openBatch)
    /\ LET draw(slot) == \E dayIndex \in 0..(LoopEnd(k, throws, 0) - 1) :
                             /\ slot = DaySlots[dayIndex + 1]
                             /\ ReachesNewChart(k, dayIndex)
       IN  /\ live' = [slot \in Slots |-> IF draw(slot) THEN live[slot] + 1 ELSE live[slot]]
           /\ canvasData' = [slot \in Slots |-> IF draw(slot) THEN k ELSE canvasData[slot]]
    /\ UNCHANGED <<openBatch, popupContent>>
    /\ UNCHANGED notPopupVars

NextPopup ==
    \/ \E station \in Stations : HandleStationClick(station)
    \/ HandleForecastClick
    \/ \E k \in 1..Len(batches), c, h \in BOOLEAN, n \in CardCounts, days \in TideDaySets :
          BatchResolves(k, c, h, n, days)
    \/ \E k \in 1..Len(batches) : BatchRejects(k)
    \/ \E k \in 1..Len(batches) : RenderStationFrame(k)
    \/ \E k \in 1..Len(batches), throws \in BOOLEAN : RenderForecastFrame(k, throws)

SpecPopup == InitPopup /\ [][NextPopup]_vars

-----------------------------------------------------------------------------
(* Properties of popups and chart slots (checked under SpecPopup) *)

\* Batch a takes a step (it resolves, rejects or renders).
BatchSteps(a) ==
    /\ a \in 1..Len(batches)
    /\ Len(batches') = Len(batches)
    /\ batches'[a] # batches[a]

\* Station batch b is the newest selection and has been rendered.
NewestRendered(b) ==
    /\ b = openBatch
    /\ batches[b].kind = "station"
    /\ batches[b].stage = "rendered"

\* C16: once the popup of the later-clicked station B has been rendered, the
\* late results of the earlier-clicked station A change nothing displayed: the
\* popup content and the charts in the 'tide-chart' and 'water-temp-chart'
\* slots go on showing B's data.
C16_StaleResultsIgnored ==
    [][\A a, b \in 1..Len(batches) :
          (/\ NewestRendered(b)
           /\ a < b
           /\ batches[a].kind = "station"
           /\ batches[a].station # batches[b].station
           /\ BatchSteps(a))
          => /\ popupContent' = popupContent
             /\ canvasData'["tide-chart"] = canvasData["tide-chart"]
             /\ canvasData'["water-temp-chart"] = canvasData["water-temp-chart"]]_vars

\* The part of C16 the code keeps: the content of the open popup is never
\* replaced by a batch other than its own.
PopupContentKeepsNewest ==
    [][\A a \in 1..Len(batches) :
          (a # openBatch /\ BatchSteps(a)) => popupContent' = popupContent]_vars

\* C17: after any sequence of station and forecast clicks and chart renders,
\* every canvas slot has at most one live chart instance.
C17_OneLiveChartPerSlot == \A slot \in Slots : live[slot] <= 1

\* The slots rendered through a module-level current chart keep to one.
SingletonSlotsHaveOne == live["tide-chart"] <= 1 /\ live["water-temp-chart"] <= 1

-----------------------------------------------------------------------------
(* The map, its tile layer and its markers: initMap, addStationMarker and    *)
(* switchMapTiles (src/unnamed/part_008), next to the click handlers.        *)

MaxMapClicks == 2    \* clicks in one run of the map specification

\* The state initMap leaves on a page without the dark-mode class: the light
\* tile layer, a marker with a click handler for every station, no popup.  (On
\* a page with the class it is the state after switchMapTiles(true).)
InitMap ==
    /\ markers = Stations
    /\ currentTileLayer = "light"
    /\ batches = <<>>
    /\ openBatch = 0
    /\ popupContent = Null
    /\ canvasData = NoCanvasData
    /\ live = [slot \in Slots |-> 0]
    /\ AllIdleExcept({"popup", "map"})

\* switchMapTiles: the current tile layer is removed and the one of the mode
\* is added.
switchMapTiles(isDarkMode) ==
    /\ currentTileLayer # "none"
    /\ currentTileLayer' = IF isDarkMode THEN "dark" ELSE "light"
    /\ UNCHANGED markers
    /\ UNCHANGED notMapVars

\* A click on the marker of a station: the handler bound by addStationMarker.
MarkerClick(station) ==
    /\ station \in markers
    /\ Len(batches) < MaxMapClicks
    /\ HandleStationClick(station)

ForecastButtonClick ==
    /\ Len(batches) < MaxMapClicks
    /\ HandleForecastClick

NextMap ==
    \/ \E isDarkMode \in BOOLEAN : switchMapTiles(isDarkMode)
    \/ \E station \in Stations : MarkerClick(station)
    \/ ForecastButtonClick
    \/ \E k \in 1..Len(batches), c, h \in BOOLEAN, n \in CardCounts, days \in TideDaySets :
          BatchResolves(k, c, h, n, days)
    \/ \E k \in 1..Len(batches) : BatchRejects(k)
    \/ \E k \in 1..Len(batches) : RenderStationFrame(k)
    \/ \E k \in 1..Len(batches), throws \in BOOLEAN : RenderForecastFrame(k, throws)

SpecMap == InitMap /\ [][NextMap]_vars

-----------------------------------------------------------------------------
(* Properties of a failed click (checked under SpecMap) *)

\* The catch block of batch k runs in this step.
Fails(k) ==
    /\ k \in 1..Len(batches)
    /\ Len(batches') = Len(batches)
    /\ batches[k].stage = "fetching"
    /\ batches'[k].stage \in {"failed", "finished"}

-----------------------------------------------------------------------------
(* The 7-day forecast popup: handleForecastClick (src/unnamed/part_008),     *)
(* buildForecastPopupContent and buildDayCard (src/js/ui/forecastPopup.js),  *)
(* renderDayTideSparkline (src/js/ui/chart.js).                              *)

\* A text that is displayed as it is.

\* value || 'N/A'
OrNA(value) == IF value = Null THEN TideNA ELSE value

\* value || []

\* One day of the sun/moon data.
SunMoonDay == [sunrise |-> Text("6:58 AM")]

\* sunMoon[index] || {}: an object without the sun/moon fields.
NoSunMoon == [sunrise |-> Null]

\* What the weather and the sun/moon source resolve to: null, no day, or the
\* seven days.
WeatherLists == {NullList} \cup DayWeatherLists

SunMoonLists == {NullList, <<>>, [d \in 1..NumDays |-> SunMoonDay]}

\* What the 7-day tide source resolves to: null, or a chronological series that
\* starts on one of the first two days.
ForecastTideSeries ==
    {NullList} \cup
    UNION {{MakeSeries(n, start, gaps, fts) :
               start \in 0..(2 * TicksPerDay), gaps \in [1..(n - 1) -> Gaps],
               fts \in [1..n -> {-3, 21}]} :
           n \in 0..MaxPreds}

buildDayCard(weather, sunMoon, tideTimes, dayIndex) ==
    [canvas |-> DaySlots[dayIndex + 1],
     conditions |-> OrNA(weather.shortForecast),
     high |-> OrNA(tideTimes.high),
     low |-> OrNA(tideTimes.low),
     sunrise |-> OrNA(sunMoon.sunrise)]

\* buildForecastPopupContent: one card per element of forecastData.weather.
buildForecastPopupContent(forecastData, t) ==
    [index \in 1..Len(forecastData.weather) |->
        buildDayCard(forecastData.weather[index],
                     IF index <= Len(forecastData.sunMoon)
                     THEN forecastData.sunMoon[index] ELSE NoSunMoon,
                     getTideTimesForDay(index - 1, OrEmpty(forecastData.tidePredictions), t),
                     index - 1)]

\* renderDayTideSparkline creates a chart: there are predictions, the canvas of
\* the day is in the popup, and the day has predictions of its own.
renderDayTideSparkline(dayIndex, predictions7Day, cards, t) ==
    /\ ~IsNullList(predictions7Day) /\ Len(predictions7Day) > 0
    /\ \E c \in 1..Len(cards) : cards[c].canvas = DaySlots[dayIndex + 1]
    /\ Len(dayPredictions(dayIndex, predictions7Day, t)) > 0

InitForecast ==
    /\ fcNow \in 0..TicksPerDay
    /\ tidePredictions7Day \in ForecastTideSeries
    /\ weatherForecast7Day \in WeatherLists
    /\ sunMoon7Day \in SunMoonLists
    /\ forecastContent = Pending
    /\ fcFrame = "none"
    /\ sparklines = {}
    /\ IdleExcept("forecast")

\* handleForecastClick after its await: the content is built from the weather
\* and the sun/moon data (forecastData has no tidePredictions field) and set,
\* and a frame is requested.
ForecastResolves ==
    /\ forecastContent = Pending
    /\ forecastContent' =
          [cards |-> buildForecastPopupContent(
                         [weather |-> OrEmpty(weatherForecast7Day),
                          sunMoon |-> OrEmpty(sunMoon7Day),
                          tidePredictions |-> NullList], fcNow)]
    /\ fcFrame' = "requested"
    /\ UNCHANGED <<fcNow, tidePredictions7Day, weatherForecast7Day, sunMoon7Day, sparklines>>
    /\ UNCHANGED notForecastVars

\* The frame callback: a renderDayTideSparkline call for each of the seven
\* days, and each call reads new Date() itself; the clock passes to its next
\* tick just before call number ticked (never, when ticked is beyond the last).
RenderSparklines ==
    \E ticked \in 2..(NumDays + 1) :
       /\ fcFrame = "requested"
       /\ ticked <= NumDays => fcNow < TicksPerDay
       /\ fcFrame' = "done"
       /\ sparklines' =
             IF ~IsNullList(tidePredictions7Day) /\ Len(tidePredictions7Day) > 0
             THEN {dayIndex \in 0..(NumDays - 1) :
                      renderDayTideSparkline(dayIndex, tidePredictions7Day,
                                             forecastContent.cards,
                                             ClockOfCard(dayIndex + 1, ticked, fcNow))}
             ELSE {}
       /\ fcNow' = IF ticked <= NumDays THEN fcNow + 1 ELSE fcNow
       /\ UNCHANGED <<tidePredictions7Day, weatherForecast7Day, sunMoon7Day, forecastContent>>
       /\ UNCHANGED notForecastVars

NextForecast == ForecastResolves \/ RenderSparklines

SpecForecast == InitForecast /\ [][NextForecast]_vars

-----------------------------------------------------------------------------
(* Properties of the forecast popup (checked under SpecForecast) *)

ForecastDrawn == fcFrame = "done"

Absent(list) == IsNullList(list) \/ Len(list) = 0

\* The days that have predictions of their own, counted from today.
DaysWithTides ==
    IF Absent(tidePredictions7Day) THEN {}
    ELSE {dayIndex \in 0..(NumDays - 1) :
             Len(dayPredictions(dayIndex, tidePredictions7Day, fcNow)) > 0}

\* Exactly one of the three sources yielded absent data.
OneSourceAbsent ==
    \/ Absent(weatherForecast7Day) /\ ~Absent(sunMoon7Day) /\ ~Absent(tidePredictions7Day)
    \/ ~Absent(weatherForecast7Day) /\ Absent(sunMoon7Day) /\ ~Absent(tidePredictions7Day)
    \/ ~Absent(weatherForecast7Day) /\ ~Absent(sunMoon7Day) /\ Absent(tidePredictions7Day)

\* C23: each source of the forecast popup degrades on its own.  When exactly
\* one of weather, sun/moon and tide predictions is absent, the seven day cards
\* are rendered and only the fields of that source show 'N/A' (the tide fields
\* also on a day without predictions), the sparklines of the days with
\* predictions being drawn; in particular, without weather data the seven
\* cards still carry their sparklines and their sun/moon times.
C23_SourcesDegradeAlone ==
    (ForecastDrawn /\ OneSourceAbsent)
    => /\ Len(forecastContent.cards) = NumDays
       /\ sparklines = DaysWithTides
       /\ \A d \in 1..Len(forecastContent.cards) :
             LET card == forecastContent.cards[d]
             IN  /\ (card.conditions = TideNA) <=> Absent(weatherForecast7Day)
                 /\ (card.sunrise = TideNA) <=> Absent(sunMoon7Day)
                 /\ (card.high = TideNA) <=> (d - 1 \notin DaysWithTides)
                 /\ (card.low = TideNA) <=> (d - 1 \notin DaysWithTides)

\* The cases of C23 the code keeps: without sun/moon data, or without tide
\* predictions, a card is rendered for every day of the weather forecast,
\* with the weather, and 'N/A' in the sun/moon fields exactly when that source
\* is absent.
SunMoonAndTidesDegrade ==
    (ForecastDrawn /\ ~Absent(weatherForecast7Day))
    => /\ Len(forecastContent.cards) = Len(weatherForecast7Day)
       /\ Absent(tidePredictions7Day) => sparklines = {}
       /\ \A d \in 1..Len(forecastContent.cards) :
             /\ forecastContent.cards[d].conditions # TideNA
             /\ (forecastContent.cards[d].sunrise = TideNA) <=> Absent(sunMoon7Day)

\* A frame callback that runs within one calendar day draws the sparklines of
\* exactly the days that have a card and predictions.
SparklinesOfDaysWithTides ==
    [][(/\ fcFrame = "requested" /\ fcFrame' = "done"
        /\ ~Absent(weatherForecast7Day)
        /\ midnightToday(fcNow') = midnightToday(fcNow))
       => sparklines' = {dayIndex \in DaysWithTides' : dayIndex < Len(weatherForecast7Day)}]_vars

\* A frame callback during which midnight passed: predictions on days 2, 3
\* and 4 of the old today, and sparklines on the cards of index 2 and 3 only.
FrameAcrossMidnight ==
    /\ ForecastDrawn /\ ~Absent(weatherForecast7Day)
    /\ Len(weatherForecast7Day) = NumDays
    /\ fcNow = TicksPerDay
    /\ ~Absent(tidePredictions7Day) /\ Len(tidePredictions7Day) = 3
    /\ \A k \in 1..3 : tidePredictions7Day[k].time = (k + 1) * TicksPerDay
    /\ sparklines = {2, 3}

\* What the code does without weather data: no card, and so no sparkline.
NoWeatherNoCards ==
    (ForecastDrawn /\ Absent(weatherForecast7Day))
    => (forecastContent.cards = <<>> /\ sparklines = {})

\* C24: whenever the 7-day tide series was fetched and day i has predictions,
\* day card i displays the High and Low times extracted from the series for
\* that day, not 'N/A'.
C24_TideTimesShown ==
    (forecastContent # Pending /\ ~Absent(tidePredictions7Day))
    => \A d \in 1..Len(forecastContent.cards) :
          (d - 1 \in DaysWithTides)
          => LET card == forecastContent.cards[d]
                 times == getTideTimesForDay(d - 1, tidePredictions7Day, fcNow)
             IN  /\ card.high # TideNA /\ card.high = times.high
                 /\ card.low # TideNA /\ card.low = times.low

\* What the code displays: the tide times of every card are 'N/A'.
TideTimesAlwaysNA ==
    forecastContent # Pending
    => \A d \in 1..Len(forecastContent.cards) :
          forecastContent.cards[d].high = TideNA /\ forecastContent.cards[d].low = TideNA

-----------------------------------------------------------------------------
(* Dates: the JavaScript Date as src/js/utils/datetime.js uses it.  An       *)
(* instant is an integer number of minutes since 1970-01-01 00:00 of the     *)
(* zone's standard time; seconds and milliseconds are zero in every Date the *)
(* functions below construct.                                                *)

MinutesPerHour == 60

MinutesPerDay == 1440

\* Days from 1970-01-01 to the first of month m (1..12) of year y, plus d - 1:
\* the proleptic Gregorian calendar of the Date constructor, which lets the
\* day of the month run over.
DaysFromCivil(y, m, d) ==
    LET yy == IF m <= 2 THEN y - 1 ELSE y
        era == yy \div 400
        yoe == yy - era * 400
        mp == IF m > 2 THEN m - 3 ELSE m + 9
        doy == (153 * mp + 2) \div 5 + d - 1
        doe == yoe * 365 + yoe \div 4 - yoe \div 100 + doy
    IN  era * 146097 + doe - 719468

\* The calendar date of a day number: year, month (1..12) and day.
CivilFromDays(z) ==
    LET zz == z + 719468
        era == zz \div 146097
        doe == zz - era * 146097
        yoe == (doe - doe \div 1460 + doe \div 36524 - doe \div 146096) \div 365
        doy == doe - (365 * yoe + yoe \div 4 - yoe \div 100)
        mp == (5 * doy + 2) \div 153
        d == doy - (153 * mp + 2) \div 5 + 1
        m == IF mp < 10 THEN mp + 3 ELSE mp - 9
    IN  [year |-> yoe + era * 400 + (IF m <= 2 THEN 1 ELSE 0), month |-> m, day |-> d]

\* The instant at which a clock on standard time shows the given date and time.
StandardTime(y, m, d, h, mi) ==
    DaysFromCivil(y, m, d) * MinutesPerDay + h * MinutesPerHour + mi

\* 0 for a Sunday .. 6 for a Saturday; 1970-01-01 was a Thursday.
DayOfWeek(z) == (z + 4) % 7

\* The day of the month of the first Sunday of month m of year y.
FirstSunday(y, m) == CHOOSE d \in 1..7 : DayOfWeek(DaysFromCivil(y, m, d)) = 0

\* A time zone either keeps standard time all year (NoDst) or puts its clocks
\* one hour ahead for part of the year.  CentralTime is US Central time under
\* the rules in force since 2007: forward on the second Sunday of March at
\* 02:00 CST, back on the first Sunday of November at 02:00 CDT (01:00 CST).
NoDst == [observesDst |-> FALSE]

CentralTime == [observesDst |-> TRUE]

Zones == {NoDst, CentralTime}

DstStart(y) == StandardTime(y, 3, FirstSunday(y, 3) + 7, 2, 0)

DstEnd(y) == StandardTime(y, 11, FirstSunday(y, 11), 1, 0)

DstOffset(t, zone) ==
    LET y == CivilFromDays(t \div MinutesPerDay).year
    IN  IF zone.observesDst /\ DstStart(y) <= t /\ t < DstEnd(y)
        THEN MinutesPerHour ELSE 0

\* What the local clock shows at instant t, in minutes since 1970-01-01 00:00.
LocalTime(t, zone) == t + DstOffset(t, zone)

getFullYear(t, zone) == CivilFromDays(LocalTime(t, zone) \div MinutesPerDay).year

\* 0-based, as Date.prototype.getMonth.
getMonth(t, zone) == CivilFromDays(LocalTime(t, zone) \div MinutesPerDay).month - 1

getDate(t, zone) == CivilFromDays(LocalTime(t, zone) \div MinutesPerDay).day

getHours(t, zone) == (LocalTime(t, zone) % MinutesPerDay) \div MinutesPerHour

getMinutes(t, zone) == LocalTime(t, zone) % MinutesPerHour

\* The instant at which the local clock shows wall (minutes since 1970-01-01
\* 00:00).  A time the clock shows twice is taken the first time it is shown; a
\* time it skips is taken on standard time, and so shown one hour later.
FromLocalTime(wall, zone) ==
    IF LocalTime(wall - MinutesPerHour, zone) = wall THEN wall - MinutesPerHour
    ELSE wall

\* new Date(year, monthIndex, day, hours, minutes): months and days run over
\* into the next year and month, and a year 0..99 stands for 1900 + year.
NewDate(year, monthIndex, day, hours, minutes, zone) ==
    LET fullYear == IF 0 <= year /\ year <= 99 THEN 1900 + year ELSE year
        y == fullYear + monthIndex \div 12
        m == (monthIndex % 12) + 1
    IN  FromLocalTime(DaysFromCivil(y, m, day) * MinutesPerDay
                         + hours * MinutesPerHour + minutes, zone)

\* date.setDate(day): the same local month and time of day, on another day.
setDate(t, day, zone) ==
    NewDate(getFullYear(t, zone), getMonth(t, zone), day,
            getHours(t, zone), getMinutes(t, zone), zone)

\* Variant that adds numDays times 24 hours to the instant of midnight.
getDateRangeFromMidnightTodayFixedHours(n, t, zone) ==
    LET beginDate ==
            NewDate(getFullYear(t, zone), getMonth(t, zone), getDate(t, zone), 0, 0, zone)
    IN  [beginDate |-> beginDate, endDate |-> beginDate + n * MinutesPerDay]

\* getDateRangeFromMidnightToday(numDays), t being the instant new Date()
\* returns.  (The fields begin and end are formatNOAADate of the two dates.)
getDateRangeFromMidnightToday(n, t, zone) ==
    LET beginDate ==
            NewDate(getFullYear(t, zone), getMonth(t, zone), getDate(t, zone), 0, 0, zone)
        endDate == setDate(beginDate, getDate(beginDate, zone) + n, zone)
    IN  [beginDate |-> beginDate, endDate |-> endDate]

\* Instants of 2024 and 2025: days around the ends of months and around the
\* two clock changes, at hours around midnight and the changes.
RangeInstants ==
    {StandardTime(y, m, d, h, mi) :
        y \in {2024, 2025}, m \in {2, 3, 10, 11, 12}, d \in {1, 2, 3, 8, 9, 26, 28, 31},
        h \in {0, 1, 2, 12, 23}, mi \in {0, 30}}

InitRange ==
    /\ rangeZone \in Zones
    /\ rangeNow \in RangeInstants
    /\ numDays \in 1..NumDays
    /\ dateRange = Pending
    /\ IdleExcept("range")

GetDateRangeFromMidnightToday ==
    /\ dateRange = Pending
    /\ dateRange' = getDateRangeFromMidnightToday(numDays, rangeNow, rangeZone)
    /\ UNCHANGED <<rangeZone, rangeNow, numDays>>
    /\ UNCHANGED notRangeVars

NextRange == GetDateRangeFromMidnightToday

SpecRange == InitRange /\ [][NextRange]_vars

-----------------------------------------------------------------------------
(* Properties of the midnight-anchored range (checked under SpecRange) *)

RangeDone == dateRange # Pending

LocalDay(t, zone) == LocalTime(t, zone) \div MinutesPerDay

IsLocalMidnight(t, zone) == getHours(t, zone) = 0 /\ getMinutes(t, zone) = 0

\* C25 as claimed: beginDate is the local midnight of the current calendar day
\* and endDate - beginDate is exactly numDays x 24 hours.
C25_ExactlyNumDaysTimes24h ==
    RangeDone
    => /\ IsLocalMidnight(dateRange.beginDate, rangeZone)
       /\ LocalDay(dateRange.beginDate, rangeZone) = LocalDay(rangeNow, rangeZone)
       /\ dateRange.endDate - dateRange.beginDate = numDays * MinutesPerDay

\* C25 as the code has it: beginDate is the local midnight of the current
\* calendar day, endDate is the local midnight numDays calendar days later, and
\* endDate - beginDate is numDays x 24 hours less the amount by which the
\* clocks were put forward in between (plus the amount they were put back).
C25_NumDaysCalendarDays ==
    RangeDone
    => /\ IsLocalMidnight(dateRange.beginDate, rangeZone)
       /\ LocalDay(dateRange.beginDate, rangeZone) = LocalDay(rangeNow, rangeZone)
       /\ IsLocalMidnight(dateRange.endDate, rangeZone)
       /\ LocalDay(dateRange.endDate, rangeZone)
             = LocalDay(dateRange.beginDate, rangeZone) + numDays
       /\ dateRange.endDate - dateRange.beginDate
             = numDays * MinutesPerDay
               - (DstOffset(dateRange.endDate, rangeZone)
                  - DstOffset(dateRange.beginDate, rangeZone))

\* Saturday 8 March 2025, 12:00 Central time, seven days: the range runs from
\* midnight of 8 March to midnight of 15 March and is 167 hours long.
C25_Witness ==
    /\ RangeDone
    /\ rangeZone = CentralTime
    /\ rangeNow = StandardTime(2025, 3, 8, 12, 0)
    /\ numDays = 7
    /\ dateRange.beginDate = StandardTime(2025, 3, 8, 0, 0)
    /\ dateRange.endDate = StandardTime(2025, 3, 14, 23, 0)
    /\ dateRange.endDate - dateRange.beginDate = 167 * MinutesPerHour

-----------------------------------------------------------------------------
(* JavaScript values of the parsing and formatting helpers: null (Null),     *)
(* undefined, strings (sequences of one-character strings), numbers and Date *)
(* objects, each a record of its own shape.                                  *)

Undefined == [undefined |-> TRUE]

Str(chars) == [chars |-> chars]

DateOf(t) == [time |-> t]

IsString(value) == "chars" \in DOMAIN value

IsDate(value) == "time" \in DOMAIN value

DigitChars == <<"0", "1", "2", "3", "4", "5", "6", "7", "8", "9">>

IsDigit(c) == \E i \in 1..10 : DigitChars[i] = c

DigitValue(c) == (CHOOSE i \in 1..10 : DigitChars[i] = c) - 1

RECURSIVE NatToString(_)
\* String(n) for an integer n >= 0.
NatToString(n) ==
    IF n < 10 THEN <<DigitChars[n + 1]>>
    ELSE NatToString(n \div 10) \o <<DigitChars[(n % 10) + 1]>>

\* String(n) for an integer n.
ToString(n) == IF n < 0 THEN <<"-">> \o NatToString(0 - n) ELSE NatToString(n)

RECURSIVE padStart(_, _, _)
\* chars.padStart(targetLength, padChar)
padStart(chars, targetLength, padChar) ==
    IF Len(chars) >= targetLength THEN chars
    ELSE padStart(<<padChar>> \o chars, targetLength, padChar)

RECURSIVE DigitsValue(_)
\* parseInt of a string of decimal digits.
DigitsValue(chars) ==
    IF chars = <<>> THEN 0
    ELSE DigitsValue(SubSeq(chars, 1, Len(chars) - 1)) * 10 + DigitValue(chars[Len(chars)])

\* Variant that writes the 0-based month index.
formatNOAADateMonthIndex(date, zone) ==
    IF ~IsDate(date) THEN Null
    ELSE LET year == getFullYear(date.time, zone)
             month == padStart(ToString(getMonth(date.time, zone)), 2, "0")
             day == padStart(ToString(getDate(date.time, zone)), 2, "0")
             hour == padStart(ToString(getHours(date.time, zone)), 2, "0")
             minute == padStart(ToString(getMinutes(date.time, zone)), 2, "0")
         IN  Str(ToString(year) \o month \o day \o <<" ">> \o hour \o <<":">> \o minute)

\* formatNOAADate(date): 'YYYYMMDD HH:MM' in local time, the year unpadded.
formatNOAADate(date, zone) ==
    IF ~IsDate(date) THEN Null
    ELSE LET year == getFullYear(date.time, zone)
             month == padStart(ToString(getMonth(date.time, zone) + 1), 2, "0")
             day == padStart(ToString(getDate(date.time, zone)), 2, "0")
             hour == padStart(ToString(getHours(date.time, zone)), 2, "0")
             minute == padStart(ToString(getMinutes(date.time, zone)), 2, "0")
         IN  Str(ToString(year) \o month \o day \o <<" ">> \o hour \o <<":">> \o minute)

\* The regular expression of parseNOAALocalTime matches chars at offset i:
\* \d{4}-\d{2}-\d{2} \d{2}:\d{2}
MatchesAt(chars, i) ==
    /\ i + 15 <= Len(chars)
    /\ \A k \in {0, 1, 2, 3, 5, 6, 8, 9, 11, 12, 14, 15} : IsDigit(chars[i + k])
    /\ chars[i + 4] = "-"
    /\ chars[i + 7] = "-"
    /\ chars[i + 10] = " "
    /\ chars[i + 13] = ":"

\* timeString.match(...): the offset of the leftmost match, 0 for no match.
Match(chars) ==
    IF \E i \in 1..Len(chars) : MatchesAt(chars, i)
    THEN CHOOSE i \in 1..Len(chars) :
             MatchesAt(chars, i) /\ \A j \in 1..(i - 1) : ~MatchesAt(chars, j)
    ELSE 0

\* parseNOAALocalTime(timeString): null for a falsy value or one that is not a
\* string (of the values above the falsy string is the empty one), null for no
\* match, else the Date of the matched local time.
parseNOAALocalTime(timeString, zone) ==
    IF ~IsString(timeString) THEN Null
    ELSE IF timeString.chars = <<>> THEN Null
    ELSE LET chars == timeString.chars
             at == Match(chars)
             Group(first, last) == DigitsValue(SubSeq(chars, at + first, at + last))
         IN  IF at = 0 THEN Null
             ELSE DateOf(NewDate(Group(0, 3), Group(5, 6) - 1, Group(8, 9),
                                 Group(11, 12), Group(14, 15), zone))

\* The time string 't' of a reply for the local time a request string names:
\* 'YYYYMMDD HH:MM' is returned as 'YYYY-MM-DD HH:MM'.
SourceEcho(request) ==
    LET chars == request.chars
    IN  Str(SubSeq(chars, 1, 4) \o <<"-">> \o SubSeq(chars, 5, 6) \o <<"-">>
              \o SubSeq(chars, 7, 8) \o SubSeq(chars, 9, 14))

InitTrip ==
    /\ tripZone \in Zones
    /\ tripDate \in {DateOf(t) : t \in RangeInstants}
    /\ requestString = Pending
    /\ echoString = Pending
    /\ parsedDate = Pending
    /\ IdleExcept("trip")

FormatRequest ==
    /\ requestString = Pending
    /\ requestString' = formatNOAADate(tripDate, tripZone)
    /\ UNCHANGED <<tripZone, tripDate, echoString, parsedDate>>
    /\ UNCHANGED notTripVars

SourceReplies ==
    /\ requestString # Pending
    /\ echoString = Pending
    /\ echoString' = SourceEcho(requestString)
    /\ UNCHANGED <<tripZone, tripDate, requestString, parsedDate>>
    /\ UNCHANGED notTripVars

ParseReply ==
    /\ echoString # Pending
    /\ parsedDate = Pending
    /\ parsedDate' = parseNOAALocalTime(echoString, tripZone)
    /\ UNCHANGED <<tripZone, tripDate, requestString, echoString>>
    /\ UNCHANGED notTripVars

NextTrip == FormatRequest \/ SourceReplies \/ ParseReply

SpecTrip == InitTrip /\ [][NextTrip]_vars

-----------------------------------------------------------------------------
(* Properties of the format / parse round trip (checked under SpecTrip) *)

LocalFields(t, zone) ==
    <<getFullYear(t, zone), getMonth(t, zone), getDate(t, zone),
      getHours(t, zone), getMinutes(t, zone)>>

\* C26: formatting a Date as a request string and parsing the reply's time
\* string for that same local time gives a Date with the same local year,
\* month, day, hour and minute (the request has 14 characters, the reply 16).
C26_RoundTrip ==
    /\ requestString # Pending => Len(requestString.chars) = 14
    /\ echoString # Pending => Len(echoString.chars) = 16
    /\ parsedDate # Pending
       => /\ IsDate(parsedDate)
          /\ LocalFields(parsedDate.time, tripZone) = LocalFields(tripDate.time, tripZone)

\* 2 November 2025, 01:30 Central standard time, the second time the clocks
\* show 01:30 that night: the parsed Date is the first 01:30, an hour earlier,
\* with the same five fields.
C26_Witness ==
    /\ tripZone = CentralTime
    /\ tripDate = DateOf(StandardTime(2025, 11, 2, 1, 30))
    /\ requestString = Str(<<"2", "0", "2", "5", "1", "1", "0", "2", " ", "0", "1", ":", "3", "0">>)
    /\ parsedDate = DateOf(StandardTime(2025, 11, 2, 0, 30))

-----------------------------------------------------------------------------
(* The safe-parse helpers of src/js/utils/conversions.js.  A number is a     *)
(* record of a mantissa and a scale, standing for mantissa / 10^scale with   *)
(* no trailing zero after the point; the sign of zero is not kept.           *)

MaxStrLen == 3

NaN == [nan |-> TRUE]

Bool(b) == [bool |-> b]

RECURSIVE Num(_, _)
Num(mantissa, scale) ==
    IF scale > 0 /\ mantissa % 10 = 0 THEN Num(mantissa \div 10, scale - 1)
    ELSE [mantissa |-> mantissa, scale |-> scale]

IsNumber(value) == "mantissa" \in DOMAIN value

RECURSIVE Pow10(_)
Pow10(k) == IF k = 0 THEN 1 ELSE 10 * Pow10(k - 1)

\* String(number) for the numbers above.
NumberToString(number) ==
    LET m == number.mantissa
        k == number.scale
        abs == IF m < 0 THEN 0 - m ELSE m
        sign == IF m < 0 THEN <<"-">> ELSE <<>>
    IN  IF k = 0 THEN ToString(m)
        ELSE sign \o NatToString(abs \div Pow10(k)) \o <<".">>
                  \o padStart(NatToString(abs % Pow10(k)), k, "0")

\* String(value), the first step of parseFloat and parseInt.
JsToString(value) ==
    IF IsString(value) THEN value.chars
    ELSE IF IsNumber(value) THEN NumberToString(value)
    ELSE IF value = Bool(TRUE) THEN <<"t", "r", "u", "e">>
    ELSE IF value = Bool(FALSE) THEN <<"f", "a", "l", "s", "e">>
    ELSE IF value = Null THEN <<"n", "u", "l", "l">>
    ELSE IF value = Undefined THEN <<"u", "n", "d", "e", "f", "i", "n", "e", "d">>
    ELSE <<"S", "a", "t">>  \* a Date: 'Sat Mar 08 2025 ...', no number in front

RECURSIVE TrimStart(_)
\* Leading white space removed.
TrimStart(chars) ==
    IF chars # <<>> /\ chars[1] = " " THEN TrimStart(Tail(chars)) ELSE chars

RECURSIVE DigitPrefix(_)
\* The longest prefix of decimal digits.
DigitPrefix(chars) ==
    IF chars # <<>> /\ IsDigit(chars[1]) THEN <<chars[1]>> \o DigitPrefix(Tail(chars))
    ELSE <<>>

Drop(chars, n) == SubSeq(chars, n + 1, Len(chars))

\* parseFloat(value): the longest decimal literal in front of the trimmed
\* string, NaN if there is none.  (The strings drawn below hold no exponent
\* and no 'Infinity'.)
parseFloat(value) ==
    LET trimmed == TrimStart(JsToString(value))
        signed == trimmed # <<>> /\ trimmed[1] \in {"-", "+"}
        negative == signed /\ trimmed[1] = "-"
        body == IF signed THEN Tail(trimmed) ELSE trimmed
        whole == DigitPrefix(body)
        rest == Drop(body, Len(whole))
        fraction == IF rest # <<>> /\ rest[1] = "." THEN DigitPrefix(Tail(rest)) ELSE <<>>
        magnitude == DigitsValue(whole \o fraction)
    IN  IF whole = <<>> /\ fraction = <<>> THEN NaN
        ELSE Num(IF negative THEN 0 - magnitude ELSE magnitude, Len(fraction))

\* parseInt(value, 10): the longest run of digits in front of the trimmed
\* string, NaN if there is none.
parseInt(value) ==
    LET trimmed == TrimStart(JsToString(value))
        signed == trimmed # <<>> /\ trimmed[1] \in {"-", "+"}
        negative == signed /\ trimmed[1] = "-"
        body == IF signed THEN Tail(trimmed) ELSE trimmed
        whole == DigitPrefix(body)
        magnitude == DigitsValue(whole)
    IN  IF whole = <<>> THEN NaN
        ELSE Num(IF negative THEN 0 - magnitude ELSE magnitude, 0)

\* Variant without the isNaN test.
safeFloatKeepNaN(value) ==
    IF value = Null \/ value = Undefined \/ value = Str(<<>>) THEN Null
    ELSE parseFloat(value)

safeFloat(value) ==
    IF value = Null \/ value = Undefined \/ value = Str(<<>>) THEN Null
    ELSE LET num == parseFloat(value)
         IN  IF num = NaN THEN Null ELSE num

safeInt(value) ==
    IF value = Null \/ value = Undefined \/ value = Str(<<>>) THEN Null
    ELSE LET num == parseInt(value)
         IN  IF num = NaN THEN Null ELSE num

StringChars == {"0", "1", ".", "-", " ", "a"}

\* Every string of up to MaxStrLen characters.
ShortStrings == UNION {[1..n -> StringChars] : n \in 0..MaxStrLen}

\* A well-formed NOAA time string, '2025-03-08 14:30'.
TimeChars ==
    <<"2", "0", "2", "5", "-", "0", "3", "-", "0", "8", " ", "1", "4", ":", "3", "0">>

\* The time string with one character replaced, cut short, or with text around
\* it; a time string whose fields run over.
TimeStrings ==
    {TimeChars, SubSeq(TimeChars, 1, 15), Tail(TimeChars),
     <<"a">> \o TimeChars, TimeChars \o <<"a">>, <<"1">> \o TimeChars \o <<"1">>,
     <<"2", "0", "2", "5", "-", "1", "3", "-", "4", "5", " ", "2", "5", ":", "6", "1">>}
      \cup {[TimeChars EXCEPT ![i] = c] : i \in 1..16, c \in {"a", "2", "-", " "}}

ParseInputs ==
    {Null, Undefined, Bool(TRUE), Bool(FALSE), Num(0, 0), Num(15, 1), Num(0 - 2, 0),
     DateOf(StandardTime(2025, 3, 8, 14, 30))}
      \cup {Str(chars) : chars \in ShortStrings \cup TimeStrings}

InitParse ==
    /\ parseZone \in Zones
    /\ parseInput \in ParseInputs
    /\ floatResult = Pending
    /\ intResult = Pending
    /\ timeResult = Pending
    /\ IdleExcept("parse")

CallSafeFloat ==
    /\ floatResult = Pending
    /\ floatResult' = safeFloat(parseInput)
    /\ UNCHANGED <<parseZone, parseInput, intResult, timeResult>>
    /\ UNCHANGED notParseVars

CallSafeInt ==
    /\ intResult = Pending
    /\ intResult' = safeInt(parseInput)
    /\ UNCHANGED <<parseZone, parseInput, floatResult, timeResult>>
    /\ UNCHANGED notParseVars

CallParseNOAALocalTime ==
    /\ timeResult = Pending
    /\ timeResult' = parseNOAALocalTime(parseInput, parseZone)
    /\ UNCHANGED <<parseZone, parseInput, floatResult, intResult>>
    /\ UNCHANGED notParseVars

NextParse == CallSafeFloat \/ CallSafeInt \/ CallParseNOAALocalTime

SpecParse == InitParse /\ [][NextParse]_vars

-----------------------------------------------------------------------------
(* Properties of the safe-parse helpers (checked under SpecParse) *)

AllDigits(chars) == \A i \in 1..Len(chars) : IsDigit(chars[i])

RECURSIVE TrimEnd(_)
TrimEnd(chars) ==
    IF chars # <<>> /\ chars[Len(chars)] = " "
    THEN TrimEnd(SubSeq(chars, 1, Len(chars) - 1))
    ELSE chars

Unsigned(chars) ==
    IF chars # <<>> /\ chars[1] \in {"-", "+"} THEN Tail(chars) ELSE chars

\* The whole string, white space around it aside, is a decimal number:
\* digits, digits.digits, digits. or .digits, with a sign or without.
IsNumericString(chars) ==
    LET body == Unsigned(TrimEnd(TrimStart(chars)))
    IN  /\ \E i \in 1..Len(body) : IsDigit(body[i])
        /\ \E i \in 0..Len(body) :
              /\ AllDigits(SubSeq(body, 1, i))
              /\ \/ i = Len(body)
                 \/ body[i + 1] = "." /\ AllDigits(Drop(body, i + 1))

\* The string begins, after white space and a sign, with a decimal number.
BeginsWithNumber(chars) ==
    LET body == Unsigned(TrimStart(chars))
    IN  /\ body # <<>>
        /\ \/ IsDigit(body[1])
           \/ body[1] = "." /\ Len(body) >= 2 /\ IsDigit(body[2])

ContainsTimePattern(chars) == \E i \in 1..Len(chars) : MatchesAt(chars, i)

\* parseNOAALocalTime gives null for what is not a string, is empty or does
\* not contain 'dddd-dd-dd dd:dd'.
TimeMalformedIsNull ==
    (timeResult # Pending
       /\ (~IsString(parseInput) \/ ~ContainsTimePattern(parseInput.chars)))
    => timeResult = Null

\* safeFloat and safeInt never give NaN.
NeverNaN ==
    /\ floatResult # Pending => floatResult # NaN
    /\ intResult # Pending => intResult # NaN

LeadingZeroParsed ==
    (parseInput = Str(<<"0", "a">>) /\ floatResult # Pending /\ intResult # Pending)
    => floatResult = Num(0, 0) /\ intResult = Num(0, 0)

-----------------------------------------------------------------------------
(* Next tide: fetchNextTide of src/js/api/noaa.js, on the list and at the     *)
(* instant the phase engine is given.                                        *)

\* events.filter(e => e.time > now): the later events, in list order.
FutureEvents(list, t) ==
    LET IsFuture(e) == e.time > t
    IN  SelectSeq(list, IsFuture)

\* Variant that puts the later events in time order before it picks two.
fetchNextTideChronological(list, t) ==
    IF IsNullList(list) \/ Len(list) = 0 THEN Null
    ELSE LET futureEvents == SortByTime(FutureEvents(list, t))
         IN  IF Len(futureEvents) = 0 THEN Null
             ELSE [first |-> futureEvents[1],
                   second |-> IF Len(futureEvents) >= 2 THEN futureEvents[2] ELSE Null]

\* fetchNextTide, list being what fetchHiloEvents resolved to and t the
\* instant new Date() returns.
fetchNextTide(list, t) ==
    IF IsNullList(list) \/ Len(list) = 0 THEN Null
    ELSE LET futureEvents == FutureEvents(list, t)
         IN  IF Len(futureEvents) = 0 THEN Null
             ELSE [first |-> futureEvents[1],
                   second |-> IF Len(futureEvents) >= 2 THEN futureEvents[2] ELSE Null]

FetchNextTide ==
    /\ nextTide = Pending
    /\ nextTide' = fetchNextTide(events, now)
    /\ UNCHANGED <<events, now, phase>>
    /\ UNCHANGED notPhaseVars

NextNextTide == ComputePhase \/ FetchNextTide

SpecNextTide == InitPhase /\ [][NextNextTide]_vars

-----------------------------------------------------------------------------
(* Properties of the next tide (checked under SpecNextTide) *)

NextTideDone == nextTide # Pending

\* C30: for a list of at least 2 events in any order, the first event
\* fetchNextTide returns is the phase engine's nextEvent, both are absent
\* together when no event is strictly after now, and no event at or before now
\* is returned as a next tide.
C30_NextTideAgrees ==
    /\ (NextTideDone /\ PhaseDone /\ RealList /\ Len(events) >= 2)
       => /\ nextTide = Null <=> phase.nextEvent = Null
          /\ nextTide = Null <=> After = {}
          /\ nextTide # Null => nextTide.first = phase.nextEvent
          /\ nextTide # Null => nextTide.first = events[MinOf(After)]
    /\ (NextTideDone /\ nextTide # Null)
       => /\ nextTide.first.time > now
          /\ nextTide.second # Null => nextTide.second.time > now

\* C30 witness: the later of two future events comes first in the list and is
\* both the first next tide and the phase engine's nextEvent; the event at now
\* is not returned.
C30_Witness ==
    /\ NextTideDone /\ PhaseDone /\ RealList /\ Len(events) = 3
    /\ events[1].time = now
    /\ events[2].time > events[3].time
    /\ events[3].time > now
    /\ nextTide = [first |-> events[2], second |-> events[3]]
    /\ phase.nextEvent = events[2]

====
